---------------------------- MODULE Spec2Model ----------------------------
(***************************************************************************)
(* A model of strava-stats-go: the analytics engine (src/internal/api):    *)
(* NormalizeActivities, CalculateRunningStats, CalculatePersonalRecords,   *)
(* GenerateDistanceHistogram, CalculateTrends; and the web server          *)
(* (src/internal/auth, src/cmd/strava-stats): the OAuth session handlers,  *)
(* the activity cache, the paginated fetch and the /api/activities handler.*)
(*                                                                         *)
(* Conventions of the model                                                *)
(*  - A time.Time is a record [y, mo, d, h, off]: the wall clock date and  *)
(*    hour in the value's own location and that location's offset from UTC *)
(*    in hours.  Minutes and seconds never decide a calendar date here.    *)
(*  - A Go string holding a date ("2006-01-02") is the sequence of its     *)
(*    bytes, so that Go's bytewise string comparison is lexicographic      *)
(*    comparison of sequences.  Other strings are TLA+ strings.            *)
(*  - float64 values are exact: a distance is an integer number of         *)
(*    centimetres (1609.34 m is 160934), and a quotient is a reduced       *)
(*    fraction <<num, den>>.                                               *)
(*  - A Go pointer is <<>> (nil) or <<v>>.                                 *)
(***************************************************************************)
EXTENDS Integers, Sequences, FiniteSets, TLC

VARIABLES
    activities,   \* []Activity handed to NormalizeActivities
    opts,         \* *NormalizeOptions of the caller (the callee writes through it)
    now,          \* what time.Now() returns during the call
    dateWindow,   \* <<>> before the call, then <<[startDate, endDate]>> as resolved
    normalized,   \* []NormalizedActivity returned by NormalizeActivities
    stats,        \* <<>> or <<RunningStats>> returned by CalculateRunningStats
    prs,          \* <<>> or <<PersonalRecords>> returned by CalculatePersonalRecords
    histogram,    \* <<>> or <<[useMiles, Bins]>> returned by GenerateDistanceHistogram
    trends,       \* <<>> or <<[Period, runningOnly, Points]>> returned by CalculateTrends
    pc,           \* "start", "normalized", then "renormalized" or "done";
                  \* "idle" while only the server is watched
    clock,        \* the server's time.Now(), in seconds
    sessions,     \* the cookie session of each browser: [oauth_state, token]
    cache,        \* activityCache.entries: key -> <<>> or <<[Activities, FetchedAt]>>
    setLog,       \* history: key -> <<>> or <<[Activities, At]>>, the latest Set
    upstream,     \* Strava: athlete -> number of activities the account holds
    reqs,         \* the /api/activities requests being handled, by request id
    resp          \* <<>> or <<what the last auth or cache call was given and gave>>

analyticsVars ==
    <<activities, opts, now, dateWindow, normalized, stats, prs, histogram, trends, pc>>

serverVars == <<clock, sessions, cache, setLog, upstream, reqs, resp>>

vars == <<analyticsVars, serverVars>>

-----------------------------------------------------------------------------
(* The web server (src/cmd/strava-stats, src/internal/auth): who and what *)

\* The browsers holding a session cookie; each is also a Strava athlete.
Users == {"alice", "bob"}

\* cacheKey of a request: "default" without a usable date range, otherwise
\* "<start_date>-<end_date>" as sent.
CacheKeys == {"default", "2024-11-25-2024-11-27"}

\* The requests to /api/activities handled at the same time.
Requests == {1, 2}

\* A request id no request is using.
Unused == [pc |-> "unused"]

\* The server before any request: fresh sessions, an empty cache.
ServerIdle ==
    /\ clock = 0
    /\ sessions = [u \in Users |-> [oauth_state |-> <<>>, token |-> <<>>]]
    /\ cache = [k \in CacheKeys |-> <<>>]
    /\ setLog = [k \in CacheKeys |-> <<>>]
    /\ upstream = [u \in Users |-> 0]
    /\ reqs = [r \in Requests |-> Unused]
    /\ resp = <<>>

-----------------------------------------------------------------------------
(* Exact arithmetic standing for float64 *)

RECURSIVE GCD(_, _)
GCD(a, b) == IF b = 0 THEN a ELSE GCD(b, a % b)

\* The quotient n/d (n >= 0, d > 0) in lowest terms.
Rat(n, d) == LET g == GCD(n, d) IN <<n \div g, d \div g>>

\* math.Round of n/d for n >= 0, d > 0 (half away from zero).
RoundDiv(n, d) == (n + (d \div 2)) \div d

Max(a, b) == IF a > b THEN a ELSE b
Min(a, b) == IF a < b THEN a ELSE b

-----------------------------------------------------------------------------
(* Go's time package, as far as the engine uses it *)

\* Days since 1970-01-01 of the proleptic Gregorian date y-m-d.
DaysFromCivil(y, m, d) ==
    LET yy  == IF m <= 2 THEN y - 1 ELSE y
        era == yy \div 400
        yoe == yy - era * 400
        mp  == IF m > 2 THEN m - 3 ELSE m + 9
        doy == (153 * mp + 2) \div 5 + d - 1
        doe == yoe * 365 + yoe \div 4 - yoe \div 100 + doy
    IN  era * 146097 + doe - 719468

\* The date <<y, m, d>> of a day count.
CivilFromDays(z) ==
    LET zz  == z + 719468
        era == zz \div 146097
        doe == zz - era * 146097
        yoe == (doe - doe \div 1460 + doe \div 36524 - doe \div 146096) \div 365
        doy == doe - (365 * yoe + yoe \div 4 - yoe \div 100)
        mp  == (5 * doy + 2) \div 153
        d   == doy - (153 * mp + 2) \div 5 + 1
        m   == IF mp < 10 THEN mp + 3 ELSE mp - 9
        y   == yoe + era * 400
    IN  <<IF m <= 2 THEN y + 1 ELSE y, m, d>>

\* time.Date(y, m, d, 0, 0, 0, 0, time.UTC), normalising an out-of-range day.
TimeDate(y, m, d) ==
    LET c == CivilFromDays(DaysFromCivil(y, m, 1) + d - 1)
    IN  [y |-> c[1], mo |-> c[2], d |-> c[3], h |-> 0, off |-> 0]

\* The zero value of time.Time: January 1, year 1, 00:00 UTC.
ZeroTime == [y |-> 1, mo |-> 1, d |-> 1, h |-> 0, off |-> 0]

\* The instant of t, in hours since 1970-01-01T00:00Z.
Instant(t) == DaysFromCivil(t.y, t.mo, t.d) * 24 + t.h - t.off

IsZero(t) == Instant(t) = Instant(ZeroTime)
Before(t, u) == Instant(t) < Instant(u)
After(t, u) == Instant(t) > Instant(u)

\* t.UTC(): the same instant with the wall clock of offset 0.
UTC(t) ==
    LET i == Instant(t)
        c == CivilFromDays(i \div 24)
    IN  [y |-> c[1], mo |-> c[2], d |-> c[3], h |-> i % 24, off |-> 0]

\* t.AddDate(0, 0, days): the wall clock moves, the location stays.
AddDays(t, days) ==
    LET c == CivilFromDays(DaysFromCivil(t.y, t.mo, t.d) + days)
    IN  [t EXCEPT !.y = c[1], !.mo = c[2], !.d = c[3]]

\* t.Weekday(): 0 is Sunday.
Weekday(t) == (DaysFromCivil(t.y, t.mo, t.d) + 4) % 7

\* Bytes of the decimal digits and of '-'.
Digit(n) == 48 + n
Dash == 45

\* t.Format("2006-01-02"): the wall clock date of t in its own location.
FormatDate(t) ==
    << Digit(t.y \div 1000), Digit((t.y \div 100) % 10),
       Digit((t.y \div 10) % 10), Digit(t.y % 10), Dash,
       Digit(t.mo \div 10), Digit(t.mo % 10), Dash,
       Digit(t.d \div 10), Digit(t.d % 10) >>

\* Whether time.Parse("2006-01-02", s) succeeds.
ParseOk(s) ==
    /\ Len(s) = 10
    /\ s[5] = Dash /\ s[8] = Dash
    /\ \A i \in {1, 2, 3, 4, 6, 7, 9, 10} : s[i] \in 48..57
    /\ LET y == (s[1]-48) * 1000 + (s[2]-48) * 100 + (s[3]-48) * 10 + (s[4]-48)
           m == (s[6]-48) * 10 + (s[7]-48)
           d == (s[9]-48) * 10 + (s[10]-48)
       IN  /\ m \in 1..12
           /\ d >= 1
           /\ CivilFromDays(DaysFromCivil(y, m, d)) = <<y, m, d>>

\* time.Parse("2006-01-02", s) for a string it accepts: midnight UTC of that date.
ParseDate(s) ==
    [y   |-> (s[1]-48) * 1000 + (s[2]-48) * 100 + (s[3]-48) * 10 + (s[4]-48),
     mo  |-> (s[6]-48) * 10 + (s[7]-48),
     d   |-> (s[9]-48) * 10 + (s[10]-48),
     h   |-> 0,
     off |-> 0]

\* Go's s < u on strings: bytewise lexicographic order.
RECURSIVE StrLess(_, _)
StrLess(s, u) ==
    IF u = <<>> THEN FALSE
    ELSE IF s = <<>> THEN TRUE
    ELSE IF Head(s) # Head(u) THEN Head(s) < Head(u)
    ELSE StrLess(Tail(s), Tail(u))

-----------------------------------------------------------------------------
(* normalize.go *)

\* fmt.Sprintf("%d", n) for n >= 0.
Itoa(n) == ToString(n)

\* Variant: minutes and seconds are printed even when they are zero.
FormatDurationAllParts(seconds) ==
    IF seconds < 60 THEN Itoa(seconds) \o "s"
    ELSE IF seconds < 3600
      THEN Itoa(seconds \div 60) \o "m " \o Itoa(seconds % 60) \o "s"
    ELSE Itoa(seconds \div 3600) \o "h " \o Itoa((seconds % 3600) \div 60) \o "m "
            \o Itoa(seconds % 60) \o "s"

FormatDuration(seconds) ==
    IF seconds < 60 THEN Itoa(seconds) \o "s"
    ELSE
      LET hours   == seconds \div 3600
          minutes == (seconds % 3600) \div 60
          secs    == seconds % 60
      IN  IF hours > 0 THEN
            IF minutes > 0 THEN
              IF secs > 0
                THEN Itoa(hours) \o "h " \o Itoa(minutes) \o "m " \o Itoa(secs) \o "s"
                ELSE Itoa(hours) \o "h " \o Itoa(minutes) \o "m"
            ELSE IF secs > 0 THEN Itoa(hours) \o "h " \o Itoa(secs) \o "s"
            ELSE Itoa(hours) \o "h"
          ELSE IF secs > 0 THEN Itoa(minutes) \o "m " \o Itoa(secs) \o "s"
          ELSE Itoa(minutes) \o "m"

\* The time.Parse in truncateToDate succeeds on every date the engine formats
\* (years 0..9999); its fallback branch computes the same value.
truncateToDate(t) ==
    LET dateStr == FormatDate(t)
        parsed  == ParseDate(dateStr)
    IN  IF ~ParseOk(dateStr) THEN TimeDate(t.y, t.mo, t.d)
        ELSE TimeDate(parsed.y, parsed.mo, parsed.d)

\* Variant: the wall clock date in the timestamp's own location.
extractLocalDateOwnOffset(t, timezone) == TimeDate(t.y, t.mo, t.d)

\* The date of the instant in UTC (line 149); the timezone label is not read.
extractLocalDate(t, timezone) ==
    LET u == UTC(t) IN TimeDate(u.y, u.mo, u.d)

normalizeActivity(activity, localDate) ==
    [ ID                  |-> activity.ID,
      SportType           |-> activity.SportType,
      StartDateLocal      |-> activity.StartDateLocal,
      Timezone            |-> activity.Timezone,
      MovingTime          |-> activity.MovingTime,
      Distance            |-> activity.Distance,
      TotalElevationGain  |-> activity.TotalElevationGain,
      AverageSpeed        |-> activity.AverageSpeed,
      MaxSpeed            |-> activity.MaxSpeed,
      LocalDate           |-> localDate,
      LocalDateStr        |-> FormatDate(localDate),
      DistanceKm          |-> Rat(activity.Distance, 100000),
      DistanceMiles       |-> Rat(activity.Distance, 160934),
      MovingTimeHours     |-> Rat(activity.MovingTime, 3600),
      MovingTimeFormatted |-> FormatDuration(activity.MovingTime),
      ElevationGainMeters |-> activity.TotalElevationGain,
      ElevationGainFeet   |-> Rat(activity.TotalElevationGain * 328084, 100000),
      AverageSpeedKmh     |-> Rat(activity.AverageSpeed * 36, 10),
      AverageSpeedMph     |-> Rat(activity.AverageSpeed * 223694, 100000),
      MaxSpeedKmh         |-> Rat(activity.MaxSpeed * 36, 10),
      MaxSpeedMph         |-> Rat(activity.MaxSpeed * 223694, 100000) ]

\* The options the call works on: a fresh {DaysBack: 7} when opts is nil.
EffectiveOpts(o) ==
    IF o = <<>> THEN [DaysBack |-> 7, StartDate |-> ZeroTime, EndDate |-> ZeroTime]
    ELSE o[1]

UsesExplicitRange(o) ==
    ~IsZero(EffectiveOpts(o).StartDate) /\ ~IsZero(EffectiveOpts(o).EndDate)

\* Variant: DaysBack is used as given.
CorrectedDaysBackKept(o) == EffectiveOpts(o).DaysBack

\* DaysBack after the `if opts.DaysBack <= 0` correction.
CorrectedDaysBack(o) ==
    IF EffectiveOpts(o).DaysBack <= 0 THEN 7 ELSE EffectiveOpts(o).DaysBack

\* startDate and endDate as NormalizeActivities determines them (lines 41-56).
ResolveWindow(o, today) ==
    IF UsesExplicitRange(o)
      THEN [startDate |-> truncateToDate(EffectiveOpts(o).StartDate),
            endDate   |-> truncateToDate(EffectiveOpts(o).EndDate)]
      ELSE [startDate |-> AddDays(today, -CorrectedDaysBack(o)),
            endDate   |-> today]

\* Variant: a window that is exclusive at its start.
OutsideWindowExclusiveStart(localDateTruncated, w) ==
    ~After(localDateTruncated, w.startDate) \/ After(localDateTruncated, w.endDate)

\* The filter of the loop body (line 78): TRUE when the activity is skipped.
OutsideWindow(localDateTruncated, w) ==
    Before(localDateTruncated, w.startDate) \/ After(localDateTruncated, w.endDate)

\* Variant: each kept activity is put in front of those collected so far.
RECURSIVE NormalizeLoopPrepend(_, _, _, _)
NormalizeLoopPrepend(acts, w, i, acc) ==
    IF i > Len(acts) THEN acc
    ELSE
      LET activity           == acts[i]
          localDate          == extractLocalDate(activity.StartDateLocal, activity.Timezone)
          localDateTruncated == truncateToDate(localDate)
      IN  IF OutsideWindow(localDateTruncated, w)
            THEN NormalizeLoopPrepend(acts, w, i + 1, acc)
            ELSE NormalizeLoopPrepend(acts, w, i + 1,
                                      <<normalizeActivity(activity, localDate)>> \o acc)

\* The loop over activities (lines 58-87), from index i with acc collected so far.
RECURSIVE NormalizeLoop(_, _, _, _)
NormalizeLoop(acts, w, i, acc) ==
    IF i > Len(acts) THEN acc
    ELSE
      LET activity           == acts[i]
          localDate          == extractLocalDate(activity.StartDateLocal, activity.Timezone)
          localDateTruncated == truncateToDate(localDate)
      IN  IF OutsideWindow(localDateTruncated, w)
            THEN NormalizeLoop(acts, w, i + 1, acc)
            ELSE NormalizeLoop(acts, w, i + 1,
                               Append(acc, normalizeActivity(activity, localDate)))

\* Variant: the correction leaves 1 in the caller's options.
OptsAfterCallOne(o) ==
    IF o # <<>> /\ ~UsesExplicitRange(o) /\ o[1].DaysBack <= 0
      THEN <<[o[1] EXCEPT !.DaysBack = 1]>>
      ELSE o

\* The caller's options after the call: DaysBack <= 0 is overwritten in place
\* when the DaysBack branch runs on a non-nil opts.
OptsAfterCall(o) ==
    IF o # <<>> /\ ~UsesExplicitRange(o) /\ o[1].DaysBack <= 0
      THEN <<[o[1] EXCEPT !.DaysBack = 7]>>
      ELSE o

NormalizeActivities ==
    /\ pc = "start"
    /\ LET w == ResolveWindow(opts, truncateToDate(now))
       IN  /\ dateWindow' = <<w>>
           /\ normalized' = NormalizeLoop(activities, w, 1, <<>>)
    /\ opts' = OptsAfterCall(opts)
    /\ pc' = "normalized"
    /\ UNCHANGED <<activities, now, stats, prs, histogram, trends>>
    /\ UNCHANGED serverVars

-----------------------------------------------------------------------------
(* running.go *)

\* Variant: rides count as running activities too.
isRunningActivityOrRide(sportType) == sportType \in {"Run", "VirtualRun", "TrailRun", "Ride"}

isRunningActivity(sportType) == sportType \in {"Run", "VirtualRun", "TrailRun"}

\* formatPace / formatPaceSeconds of the pace n/d seconds: math.Round, then
\* fmt.Sprintf("%d:%02d", minutes, seconds).
formatPace(n, d) ==
    LET totalSeconds == RoundDiv(n, d)
        minutes      == totalSeconds \div 60
        seconds      == totalSeconds % 60
    IN  Itoa(minutes) \o ":" \o (IF seconds < 10 THEN "0" ELSE "") \o Itoa(seconds)

\* The accumulators of CalculateRunningStats after the loop over acts[i..]
\* (lines 72-85).
RECURSIVE StatsLoop(_, _, _)
StatsLoop(acts, i, acc) ==
    IF i > Len(acts) THEN acc
    ELSE IF ~isRunningActivity(acts[i].SportType) THEN StatsLoop(acts, i + 1, acc)
    ELSE StatsLoop(acts, i + 1,
            [ TotalRuns       |-> acc.TotalRuns + 1,
              totalDistance   |-> acc.totalDistance + acts[i].Distance,
              totalMovingTime |-> acc.totalMovingTime + acts[i].MovingTime,
              runsOver10K     |-> acc.runsOver10K
                                    + (IF acts[i].Distance >= 1000000 THEN 1 ELSE 0) ])

StatsZero == [TotalRuns |-> 0, totalDistance |-> 0, totalMovingTime |-> 0, runsOver10K |-> 0]

\* The sum of two fractions, reduced.
RatAdd(a, b) == Rat(a[1] * b[2] + b[1] * a[2], a[2] * b[2])

\* The sum of the per-activity paces MovingTime/Distance of the runs of acts[i..]
\* that have a distance, as <<sum, how many>>.
RECURSIVE PaceSum(_, _, _)
PaceSum(acts, i, acc) ==
    IF i > Len(acts) THEN acc
    ELSE IF ~isRunningActivity(acts[i].SportType) \/ acts[i].Distance = 0
      THEN PaceSum(acts, i + 1, acc)
    ELSE PaceSum(acts, i + 1,
            << RatAdd(acc[1], Rat(acts[i].MovingTime, acts[i].Distance)), acc[2] + 1 >>)

\* Variant: the average pace as the arithmetic mean of the per-activity paces.
CalculateRunningStatsMeanOfPaces(acts) ==
    LET a    == StatsLoop(acts, 1, StatsZero)
        ps   == PaceSum(acts, 1, << <<0, 1>>, 0 >>)
        mean == Rat(ps[1][1], ps[1][2] * ps[2])
    IN  [ TotalRuns           |-> a.TotalRuns,
          RunsOver10K         |-> a.runsOver10K,
          TotalDistance       |-> a.totalDistance,
          TotalDistanceMiles  |-> Rat(a.totalDistance, 160934),
          AveragePace         |->
              IF a.TotalRuns > 0 /\ a.totalDistance > 0
                THEN formatPace(mean[1] * 160934, mean[2]) ELSE "",
          AveragePaceMinPerKm |->
              IF a.TotalRuns > 0 /\ a.totalDistance > 0
                THEN formatPace(mean[1] * 100000, mean[2]) ELSE "" ]

\* With the distance in centimetres, paceSecPerMeter * 1609.34 is
\* totalMovingTime * 160934 / totalDistance and paceSecPerMeter * 1000 is
\* totalMovingTime * 100000 / totalDistance.
CalculateRunningStats(acts) ==
    LET a == StatsLoop(acts, 1, StatsZero)
    IN  [ TotalRuns           |-> a.TotalRuns,
          RunsOver10K         |-> a.runsOver10K,
          TotalDistance       |-> a.totalDistance,
          TotalDistanceMiles  |-> Rat(a.totalDistance, 160934),
          AveragePace         |->
              IF a.TotalRuns > 0 /\ a.totalDistance > 0
                THEN formatPace(a.totalMovingTime * 160934, a.totalDistance) ELSE "",
          AveragePaceMinPerKm |->
              IF a.TotalRuns > 0 /\ a.totalDistance > 0
                THEN formatPace(a.totalMovingTime * 100000, a.totalDistance) ELSE "" ]

\* The Name of an activity is carried along unread and is left out.
createRunRecord(activity) ==
    LET hasPace == activity.Distance > 0 /\ activity.MovingTime > 0
    IN  [ ID                |-> activity.ID,
          Date              |-> activity.LocalDateStr,
          Distance          |-> activity.Distance,
          DistanceMiles     |-> activity.DistanceMiles,
          MovingTime        |-> activity.MovingTime,
          ElevationGain     |-> activity.TotalElevationGain,
          ElevationGainFeet |-> activity.ElevationGainFeet,
          Pace              |-> IF hasPace
                                  THEN formatPace(activity.MovingTime * 160934, activity.Distance)
                                  ELSE "",
          PaceMinPerKm      |-> IF hasPace
                                  THEN formatPace(activity.MovingTime * 100000, activity.Distance)
                                  ELSE "" ]

\* The constants of CalculatePersonalRecords, in centimetres.
mileInMeters == 160934
tenKInMeters == 1000000
mileTolerance == 20000
tenKTolerance == 50000

\* Variant: a band that excludes its two ends.
InMileBandOpen(distance) ==
    distance > mileInMeters - mileTolerance /\ distance < mileInMeters + mileTolerance

\* The condition of line 128.
InMileBand(distance) ==
    distance >= mileInMeters - mileTolerance /\ distance <= mileInMeters + mileTolerance

\* The condition of line 136.
InTenKBand(distance) ==
    distance >= tenKInMeters - tenKTolerance /\ distance <= tenKInMeters + tenKTolerance

\* Variant: without the test for the initial -1.
IsFasterNoSentinel(movingTime, fastestTime) == movingTime < fastestTime

\* Variant: an equal moving time replaces the incumbent.
IsFasterOrEqual(movingTime, fastestTime) ==
    fastestTime = -1 \/ movingTime <= fastestTime

\* The conditions of lines 129 and 137.
IsFaster(movingTime, fastestTime) ==
    fastestTime = -1 \/ movingTime < fastestTime

\* Variant: an equal value replaces the incumbent.
IsGreaterOrEqual(value, best) == value >= best

\* The conditions of lines 144 and 150.
IsGreater(value, best) == value > best

\* Variant: the longest run starts as a record of no activity.
PRZeroSentinel ==
    [ FastestMile |-> <<>>, Fastest10K |-> <<>>,
      LongestRun |-> <<[ ID |-> 0, Date |-> <<>>, Distance |-> 0, DistanceMiles |-> <<0, 1>>,
                         MovingTime |-> 0, ElevationGain |-> 0, ElevationGainFeet |-> <<0, 1>>,
                         Pace |-> "", PaceMinPerKm |-> "" ]>>,
      MostElevation |-> <<>>,
      fastestMileTime |-> -1, fastest10KTime |-> -1,
      longestDistance |-> -1, mostElevation |-> -1 ]

\* The state of CalculatePersonalRecords before its loop (lines 111-120).
PRZero ==
    [ FastestMile |-> <<>>, Fastest10K |-> <<>>, LongestRun |-> <<>>, MostElevation |-> <<>>,
      fastestMileTime |-> -1, fastest10KTime |-> -1,
      longestDistance |-> -1, mostElevation |-> -1 ]

\* One iteration of the loop of CalculatePersonalRecords on a running activity.
PRStep(acc, activity) ==
    LET mile == InMileBand(activity.Distance)
                  /\ IsFaster(activity.MovingTime, acc.fastestMileTime)
        tenK == InTenKBand(activity.Distance)
                  /\ IsFaster(activity.MovingTime, acc.fastest10KTime)
        long == IsGreater(activity.Distance, acc.longestDistance)
        elev == IsGreater(activity.TotalElevationGain, acc.mostElevation)
        rec  == <<createRunRecord(activity)>>
    IN  [ FastestMile     |-> IF mile THEN rec ELSE acc.FastestMile,
          fastestMileTime |-> IF mile THEN activity.MovingTime ELSE acc.fastestMileTime,
          Fastest10K      |-> IF tenK THEN rec ELSE acc.Fastest10K,
          fastest10KTime  |-> IF tenK THEN activity.MovingTime ELSE acc.fastest10KTime,
          LongestRun      |-> IF long THEN rec ELSE acc.LongestRun,
          longestDistance |-> IF long THEN activity.Distance ELSE acc.longestDistance,
          MostElevation   |-> IF elev THEN rec ELSE acc.MostElevation,
          mostElevation   |-> IF elev THEN activity.TotalElevationGain ELSE acc.mostElevation ]

RECURSIVE PRLoop(_, _, _)
PRLoop(acts, i, acc) ==
    IF i > Len(acts) THEN acc
    ELSE IF ~isRunningActivity(acts[i].SportType) THEN PRLoop(acts, i + 1, acc)
    ELSE PRLoop(acts, i + 1, PRStep(acc, acts[i]))

CalculatePersonalRecords(acts) ==
    LET a == PRLoop(acts, 1, PRZero)
    IN  [ FastestMile |-> a.FastestMile, Fastest10K |-> a.Fastest10K,
          LongestRun |-> a.LongestRun, MostElevation |-> a.MostElevation ]

\* math.Round(x*10)/10 printed with %.1f, for x = n/d.
FormatTenths(n, d) ==
    LET tenths == RoundDiv(n * 10, d)
    IN  Itoa(tenths \div 10) \o "." \o Itoa(tenths % 10)

formatRangeMiles(startMeters, endMeters) ==
    FormatTenths(startMeters, 160934) \o "-" \o FormatTenths(endMeters, 160934) \o " mi"

formatRangeKm(startMeters, endMeters) ==
    FormatTenths(startMeters, 100000) \o "-" \o FormatTenths(endMeters, 100000) \o " km"

\* The running activities of acts[i..], in order (lines 166-171).
RECURSIVE FilterRuns(_, _)
FilterRuns(acts, i) ==
    IF i > Len(acts) THEN <<>>
    ELSE IF isRunningActivity(acts[i].SportType)
      THEN <<acts[i]>> \o FilterRuns(acts, i + 1)
      ELSE FilterRuns(acts, i + 1)

\* The greatest distance of runs[i..] or m (lines 184-189).
RECURSIVE MaxDistanceLoop(_, _, _)
MaxDistanceLoop(runs, i, m) ==
    IF i > Len(runs) THEN m
    ELSE MaxDistanceLoop(runs, i + 1, IF runs[i].Distance > m THEN runs[i].Distance ELSE m)

\* The cap on the number of bins (line 193).
MaxBins == 50

\* numBins of lines 192-195: int(math.Ceil(maxDistance/binSize)) + 1, capped.
NumBins(maxDistance, binSize) ==
    LET n == (maxDistance + binSize - 1) \div binSize + 1
    IN  IF n > MaxBins THEN MaxBins ELSE n

\* The empty bin of index i, counted from 0 (lines 199-218).
NewBin(i, binSize) ==
    [ Range         |-> formatRangeMiles(i * binSize, (i + 1) * binSize),
      RangeKm       |-> formatRangeKm(i * binSize, (i + 1) * binSize),
      Count         |-> 0,
      Distance      |-> 0,
      DistanceMiles |-> <<0, 1>> ]

\* Variant: an index beyond the last bin is left as it is.
FoldOverflowNot(binIndex, numBins) == binIndex

\* Lines 224-226: an index beyond the last bin becomes the last bin's.
FoldOverflow(binIndex, numBins) ==
    IF binIndex >= numBins THEN numBins - 1 ELSE binIndex

\* The bins after counting runs[i..] into them (lines 222-232); bin index k,
\* counted from 0, is bins[k + 1].  DistanceMiles, a sum of quotients by
\* 1609.34, is the quotient of the sum.
RECURSIVE PopulateBins(_, _, _, _)
PopulateBins(runs, i, bins, binSize) ==
    IF i > Len(runs) THEN bins
    ELSE
      LET numBins  == Len(bins)
          binIndex == FoldOverflow(runs[i].Distance \div binSize, numBins)
      IN  IF binIndex >= 0 /\ binIndex < numBins
            THEN PopulateBins(runs, i + 1,
                   [bins EXCEPT ![binIndex + 1] =
                      [ @ EXCEPT !.Count = @ + 1,
                                 !.Distance = @ + runs[i].Distance,
                                 !.DistanceMiles =
                                     Rat(bins[binIndex + 1].Distance + runs[i].Distance, 160934) ]],
                   binSize)
            ELSE PopulateBins(runs, i + 1, bins, binSize)

\* Lines 235-240, scanning down from bins[i]: the bins up to the last one
\* that is not empty, or none when all are empty.
RECURSIVE TrimTrailingEmpty(_, _)
TrimTrailingEmpty(bins, i) ==
    IF i < 1 THEN <<>>
    ELSE IF bins[i].Count > 0 THEN SubSeq(bins, 1, i)
    ELSE TrimTrailingEmpty(bins, i - 1)

\* Variant: every created bin is returned.
UntrimmedBins(bins) == bins

\* The bins as cut at the end of GenerateDistanceHistogram.
TrimmedBins(bins) == TrimTrailingEmpty(bins, Len(bins))

GenerateDistanceHistogram(acts, useMiles) ==
    LET runs == FilterRuns(acts, 1)
    IN  IF Len(runs) = 0 THEN [Bins |-> <<>>]
        ELSE
          LET binSize     == IF useMiles THEN 160934 ELSE 100000
              maxDistance == MaxDistanceLoop(runs, 1, 0)
              numBins     == NumBins(maxDistance, binSize)
              bins        == [k \in 1..numBins |-> NewBin(k - 1, binSize)]
          IN  [Bins |-> TrimmedBins(PopulateBins(runs, 1, bins, binSize))]

-----------------------------------------------------------------------------
(* trends.go *)

\* Variant: Sunday keeps weekday 0, so that its week starts the day after.
getPeriodKeySundayZero(dateStr, period) ==
    IF ~ParseOk(dateStr) THEN dateStr
    ELSE
      LET t == ParseDate(dateStr)
      IN  CASE period = "weekly"  -> FormatDate(AddDays(t, -(Weekday(t) - 1)))
            [] period = "monthly" -> FormatDate(TimeDate(t.y, t.mo, 1))
            [] OTHER              -> dateStr

getPeriodKey(dateStr, period) ==
    IF ~ParseOk(dateStr) THEN dateStr
    ELSE
      LET t == ParseDate(dateStr)
      IN  CASE period = "weekly" ->
                 LET wd      == Weekday(t)
                     weekday == IF wd = 0 THEN 7 ELSE wd
                 IN  FormatDate(AddDays(t, -(weekday - 1)))
            [] period = "monthly" -> FormatDate(TimeDate(t.y, t.mo, 1))
            [] OTHER              -> dateStr

\* The map of groupByPeriod after the loop over acts[i..]: a function from
\* date keys to the activities appended under them, in order.
RECURSIVE GroupLoop(_, _, _, _)
GroupLoop(acts, period, i, groups) ==
    IF i > Len(acts) THEN groups
    ELSE
      LET dateKey == getPeriodKey(acts[i].LocalDateStr, period)
          next    == [ k \in DOMAIN groups \cup {dateKey} |->
                         IF k = dateKey
                           THEN (IF k \in DOMAIN groups THEN Append(groups[k], acts[i])
                                 ELSE <<acts[i]>>)
                           ELSE groups[k] ]
      IN  GroupLoop(acts, period, i + 1, next)

groupByPeriod(acts, period) == GroupLoop(acts, period, 1, [k \in {} |-> <<>>])

\* totalDistance and totalMovingTime of a group (lines 125-128).
RECURSIVE GroupTotals(_, _, _)
GroupTotals(group, i, acc) ==
    IF i > Len(group) THEN acc
    ELSE GroupTotals(group, i + 1,
            << acc[1] + group[i].Distance, acc[2] + group[i].MovingTime >>)

\* Variant: a pace is formatted whenever the group has a moving time, a
\* distance of zero giving the text of a division by zero.
calculatePeriodAverageUnguarded(group, dateStr) ==
    LET tot             == GroupTotals(group, 1, <<0, 0>>)
        totalDistance   == tot[1]
        totalMovingTime == tot[2]
        count           == Len(group)
        hasPace         == count > 0 /\ totalMovingTime > 0
    IN  [ Date          |-> dateStr,
          Distance      |-> Rat(totalDistance, 1),
          DistanceMiles |-> Rat(totalDistance, 160934),
          Count         |-> count,
          Pace          |-> IF ~hasPace THEN ""
                            ELSE IF totalDistance = 0 THEN "+Inf"
                            ELSE formatPace(totalMovingTime * 160934, totalDistance),
          PaceMinPerKm  |-> IF ~hasPace THEN ""
                            ELSE IF totalDistance = 0 THEN "+Inf"
                            ELSE formatPace(totalMovingTime * 100000, totalDistance) ]

\* A point's Distance and DistanceMiles are fractions: smoothing divides them.
calculatePeriodAverage(group, dateStr) ==
    LET tot             == GroupTotals(group, 1, <<0, 0>>)
        totalDistance   == tot[1]
        totalMovingTime == tot[2]
        count           == Len(group)
        hasPace         == count > 0 /\ totalDistance > 0 /\ totalMovingTime > 0
    IN  [ Date          |-> dateStr,
          Distance      |-> Rat(totalDistance, 1),
          DistanceMiles |-> Rat(totalDistance, 160934),
          Count         |-> count,
          Pace          |-> IF hasPace
                              THEN formatPace(totalMovingTime * 160934, totalDistance) ELSE "",
          PaceMinPerKm  |-> IF hasPace
                              THEN formatPace(totalMovingTime * 100000, totalDistance) ELSE "" ]

\* points[i].Date > points[j].Date on Go strings.
DateGreater(a, b) == StrLess(b, a)

\* The inner and the outer loop of sortTrendPoints (0-based i, j as in the code).
RECURSIVE SortInner(_, _, _)
SortInner(points, i, j) ==
    IF j >= Len(points) THEN points
    ELSE IF DateGreater(points[i + 1].Date, points[j + 1].Date)
      THEN SortInner([points EXCEPT ![i + 1] = points[j + 1], ![j + 1] = points[i + 1]],
                     i, j + 1)
      ELSE SortInner(points, i, j + 1)

RECURSIVE SortOuter(_, _)
SortOuter(points, i) ==
    IF i >= Len(points) - 1 THEN points
    ELSE SortOuter(SortInner(points, i, i + 1), i + 1)

\* Variant: the points stay in the order the map was iterated in.
sortTrendPointsNot(points) == points

sortTrendPoints(points) == SortOuter(points, 0)

\* Variant: the smoothed point also takes the number of averaged points as
\* its Count.
SmoothedPointAlsoCount(points, i, halfWindow) ==
    LET start == Max(i - halfWindow, 0)
        end   == Min(i + halfWindow + 1, Len(points))
        js    == start..(end - 1)
        Sum[j \in (start - 1)..(end - 1)] ==
            IF j < start THEN <<0, 1>> ELSE RatAdd(Sum[j - 1], points[j + 1].Distance)
        sumDistance == Sum[end - 1]
        count == Cardinality({ j \in js : points[j + 1].Distance[1] > 0 })
    IN  IF count > 0
          THEN [ points[i + 1] EXCEPT
                   !.Distance = Rat(sumDistance[1], sumDistance[2] * count),
                   !.DistanceMiles = Rat(sumDistance[1], sumDistance[2] * count * 160934),
                   !.Count = count ]
          ELSE points[i + 1]

\* The smoothed point of 0-based index i (lines 176-202).
SmoothedPoint(points, i, halfWindow) ==
    LET start == Max(i - halfWindow, 0)
        end   == Min(i + halfWindow + 1, Len(points))
        js    == start..(end - 1)
        Sum[j \in (start - 1)..(end - 1)] ==
            IF j < start THEN <<0, 1>> ELSE RatAdd(Sum[j - 1], points[j + 1].Distance)
        sumDistance == Sum[end - 1]
        count == Cardinality({ j \in js : points[j + 1].Distance[1] > 0 })
    IN  IF count > 0
          THEN [ points[i + 1] EXCEPT
                   !.Distance = Rat(sumDistance[1], sumDistance[2] * count),
                   !.DistanceMiles = Rat(sumDistance[1], sumDistance[2] * count * 160934) ]
          ELSE points[i + 1]

applyMovingAverage(points, window) ==
    IF Len(points) <= window THEN points
    ELSE [ k \in 1..Len(points) |-> SmoothedPoint(points, k - 1, window \div 2) ]

\* The loop of lines 40-45 over acts[i..]: CalculateTrends spells the three
\* sport types out instead of calling isRunningActivity.
RECURSIVE TrendFilterLoop(_, _)
TrendFilterLoop(acts, i) ==
    IF i > Len(acts) THEN <<>>
    ELSE IF acts[i].SportType = "Run" \/ acts[i].SportType = "VirtualRun"
              \/ acts[i].SportType = "TrailRun"
      THEN <<acts[i]>> \o TrendFilterLoop(acts, i + 1)
      ELSE TrendFilterLoop(acts, i + 1)

\* The activities CalculateTrends groups (lines 38-48).
TrendFilter(acts, runningOnly) == IF runningOnly THEN TrendFilterLoop(acts, 1) ELSE acts

\* CalculateTrends, with `order` the sequence of keys in which `range grouped`
\* happens to iterate over the map: the language leaves that order open.
CalculateTrends(acts, period, runningOnly, order) ==
    LET filteredActivities == TrendFilter(acts, runningOnly)
    IN  IF Len(filteredActivities) = 0 THEN [Period |-> period, Points |-> <<>>]
        ELSE
          LET grouped  == groupByPeriod(filteredActivities, period)
              appended == [ k \in 1..Len(order) |->
                              calculatePeriodAverage(grouped[order[k]], order[k]) ]
              sorted   == sortTrendPoints(appended)
              points   == IF period = "daily" /\ Len(sorted) > 1
                            THEN applyMovingAverage(sorted, 3) ELSE sorted
          IN  [Period |-> period, Points |-> points]

\* Every order in which a map with key set S can be iterated.
IterationOrders(S) ==
    { f \in [1..Cardinality(S) -> S] : \A a, b \in 1..Cardinality(S) : f[a] = f[b] => a = b }

\* The handlers call the analytics on what NormalizeActivities returned.
RunningStatsCall ==
    /\ pc = "normalized"
    /\ stats' = <<CalculateRunningStats(normalized)>>
    /\ pc' = "done"
    /\ UNCHANGED <<activities, opts, now, dateWindow, normalized, prs, histogram, trends>>
    /\ UNCHANGED serverVars

PersonalRecordsCall ==
    /\ pc = "normalized"
    /\ prs' = <<CalculatePersonalRecords(normalized)>>
    /\ pc' = "done"
    /\ UNCHANGED <<activities, opts, now, dateWindow, normalized, stats, histogram, trends>>
    /\ UNCHANGED serverVars

DistanceHistogramCall ==
    /\ pc = "normalized"
    /\ \E useMiles \in BOOLEAN :
          histogram' = <<[ useMiles |-> useMiles,
                           Bins |-> GenerateDistanceHistogram(normalized, useMiles).Bins ]>>
    /\ pc' = "done"
    /\ UNCHANGED <<activities, opts, now, dateWindow, normalized, stats, prs, trends>>
    /\ UNCHANGED serverVars

TrendsCall ==
    /\ pc = "normalized"
    /\ \E period \in {"daily", "weekly", "monthly"}, runningOnly \in BOOLEAN :
         \E order \in IterationOrders(
                        DOMAIN groupByPeriod(TrendFilter(normalized, runningOnly), period)) :
            trends' = <<[ Period |-> period, runningOnly |-> runningOnly,
                          Points |-> CalculateTrends(normalized, period,
                                                     runningOnly, order).Points ]>>
    /\ pc' = "done"
    /\ UNCHANGED <<activities, opts, now, dateWindow, normalized, stats, prs, histogram>>
    /\ UNCHANGED serverVars

-----------------------------------------------------------------------------
(* Inputs *)

\* Length bound of the activity list given to NormalizeActivities.
MaxNormActs == 2

T(y, mo, d, h, off) == [y |-> y, mo |-> mo, d |-> d, h |-> h, off |-> off]

Activity(id, sport, start, tz, dist, mt, elev) ==
    [ ID |-> id, SportType |-> sport, StartDateLocal |-> start, Timezone |-> tz,
      MovingTime |-> mt, Distance |-> dist, TotalElevationGain |-> elev,
      AverageSpeed |-> 3, MaxSpeed |-> 5 ]

\* Start timestamps around a window of late November 2024, in several offsets.
NormStarts ==
    { T(2024, 11, 24, 12, 0),     \* the day before Nov 25
      T(2024, 11, 25, 0, 0),      \* Nov 25, first hour
      T(2024, 11, 25, 23, -8),    \* Nov 25 23:00 at UTC-8: Nov 26 07:00 in UTC
      T(2024, 11, 27, 20, 0),     \* Nov 27
      T(2024, 11, 27, 23, -8),    \* Nov 27 at UTC-8, Nov 28 in UTC
      T(2024, 11, 28, 1, 9),      \* Nov 28 at UTC+9, Nov 27 in UTC
      T(2024, 11, 28, 1, 0),      \* the day after Nov 27
      ZeroTime }                  \* a missing timestamp

TimezoneLabels == {"", "(GMT-08:00) America/Los_Angeles"}

NormNows == { T(2024, 11, 27, 10, -8), T(2024, 11, 27, 23, -8) }

\* Nil, every combination of set and unset dates with three values of
\* DaysBack, and two ranges that start on the last day of year 0.
NormOptions ==
    { <<>> } \cup
    { <<[DaysBack |-> db, StartDate |-> s, EndDate |-> e]>> :
        db \in {-1, 0, 2},
        s \in {ZeroTime, T(2024, 11, 25, 9, 0)},
        e \in {ZeroTime, T(2024, 11, 27, 18, 0), T(2024, 11, 25, 21, 0)} } \cup
    { <<[DaysBack |-> 0, StartDate |-> T(0, 12, 31, 0, 0), EndDate |-> e]>> :
        e \in {ZeroTime, T(2024, 11, 25, 21, 0)} }

\* Every start without a label, two of them also with one.
NormPool ==
    (NormStarts \X {""})
    \cup ({T(2024, 11, 25, 23, -8), T(2024, 11, 27, 20, 0)} \X TimezoneLabels)

NormActivityLists ==
    UNION { { [i \in 1..n |-> Activity(i, "Run", f[i][1], f[i][2], 500000, 1800, 20)] :
                f \in [1..n -> NormPool] } : n \in 0..MaxNormActs }

InitNormalize ==
    /\ activities \in NormActivityLists
    /\ opts \in NormOptions
    /\ now \in NormNows
    /\ dateWindow = <<>>
    /\ normalized = <<>>
    /\ stats = <<>>
    /\ prs = <<>>
    /\ histogram = <<>>
    /\ trends = <<>>
    /\ pc = "start"
    /\ ServerIdle

\* A handler calling NormalizeActivities once more, later on the same day,
\* on the same activities and with the same options value.
NormalizeActivitiesAgain ==
    /\ pc = "normalized"
    /\ \E later \in NormNows :
          /\ ~Before(later, now)
          /\ now' = later
          /\ LET w == ResolveWindow(opts, truncateToDate(later))
             IN  /\ dateWindow' = <<w>>
                 /\ normalized' = NormalizeLoop(activities, w, 1, <<>>)
    /\ opts' = OptsAfterCall(opts)
    /\ pc' = "renormalized"
    /\ UNCHANGED <<activities, stats, prs, histogram, trends>>
    /\ UNCHANGED serverVars

NextNormalize == NormalizeActivities \/ NormalizeActivitiesAgain

SpecNormalize == InitNormalize /\ [][NextNormalize]_vars

\* Length bounds of the activity lists given to the running analytics.
MaxStatsActs == 3
MaxRecordActs == 2

Today == T(2024, 11, 27, 10, 0)

\* The state before the call of NormalizeActivities(acts, nil) at Today.
InitWith(acts) ==
    /\ activities = acts
    /\ opts = <<>>
    /\ now = Today
    /\ dateWindow = <<>>
    /\ normalized = <<>>
    /\ stats = <<>>
    /\ prs = <<>>
    /\ histogram = <<>>
    /\ trends = <<>>
    /\ pc = "start"
    /\ ServerIdle

\* Lists of up to max activities of Today, the fields of each drawn from pool
\* (tuples <<sport, distance, moving time, elevation gain>>).
ListsOver(pool, max) ==
    UNION { { [i \in 1..n |-> Activity(i, f[i][1], Today, "", f[i][2], f[i][3], f[i][4])] :
                f \in [1..n -> pool] } : n \in 0..max }

StatsPool ==
    ( {"Run"} \X {0, 500000, 1000000} \X {1800, 3000} \X {20} )
    \cup { <<"TrailRun", 500000, 1800, 20>>,
           <<"Ride", 500000, 1800, 20>>, <<"Ride", 1000000, 3000, 20>> }

InitStats == \E acts \in ListsOver(StatsPool, MaxStatsActs) : InitWith(acts)

NextStats == NormalizeActivities \/ RunningStatsCall

SpecStats == InitStats /\ [][NextStats]_vars

\* Distances at and one centimetre beyond both ends of both bands, 1700 m
\* and 1900 m; a run without distance or climb; a ride that would win every
\* category were it a run.
RecordPool ==
    ( {"Run"}
        \X {140933, 140934, 170000, 180934, 180935, 190000,
            949999, 950000, 1050000, 1050001}
        \X {300, 400} \X {10} )
    \cup ( {"Run"} \X {170000, 950000} \X {300, 400} \X {30} )
    \cup { <<"Run", 0, 300, 0>>,
           <<"Ride", 170000, 200, 90>>, <<"Ride", 2000000, 200, 90>> }

InitRecords == \E acts \in ListsOver(RecordPool, MaxRecordActs) : InitWith(acts)

NextRecords == NormalizeActivities \/ PersonalRecordsCall

SpecRecords == InitRecords /\ [][NextRecords]_vars

MaxHistActs == 3

\* Distances from 0 to 100 km: below one bin width, exactly one mile, and
\* beyond the upper edge of the 50th bin in either unit.
HistPool ==
    ( {"Run"} \X {0, 50000, 160934, 250000, 4900000, 5000000, 10000000} \X {1800} \X {20} )
    \cup { <<"Ride", 250000, 1800, 20>> }

InitHistogram == \E acts \in ListsOver(HistPool, MaxHistActs) : InitWith(acts)

NextHistogram == NormalizeActivities \/ DistanceHistogramCall

SpecHistogram == InitHistogram /\ [][NextHistogram]_vars

MaxTrendActs == 3

\* A Saturday, Sunday, Monday and Tuesday across a month boundary.
TrendNow == T(2024, 12, 3, 10, 0)
TrendDates ==
    { T(2024, 11, 30, 8, 0), T(2024, 12, 1, 8, 0), T(2024, 12, 2, 8, 0), T(2024, 12, 3, 8, 0) }

\* Tuples <<sport, start, distance, moving time>>: a run of 1000 m on each day,
\* longer runs on two of them, a run without distance and a ride.
TrendPool ==
    ( {"Run"} \X TrendDates \X {100000} \X {600} )
    \cup { <<"Run", T(2024, 12, 1, 8, 0), 200000, 900>>,
           <<"Run", T(2024, 12, 2, 8, 0), 300000, 1200>>,
           <<"Run", T(2024, 12, 3, 8, 0), 0, 600>>,
           <<"Ride", T(2024, 12, 2, 8, 0), 2000000, 2400>> }

TrendLists ==
    UNION { { [i \in 1..n |-> Activity(i, f[i][1], f[i][2], "", f[i][3], f[i][4], 20)] :
                f \in [1..n -> TrendPool] } : n \in 0..MaxTrendActs }

InitTrends ==
    /\ activities \in TrendLists
    /\ opts = <<>>
    /\ now = TrendNow
    /\ dateWindow = <<>>
    /\ normalized = <<>>
    /\ stats = <<>>
    /\ prs = <<>>
    /\ histogram = <<>>
    /\ trends = <<>>
    /\ pc = "start"
    /\ ServerIdle

NextTrends == NormalizeActivities \/ TrendsCall

SpecTrends == InitTrends /\ [][NextTrends]_vars

\* Length bound of the activity lists given to all four analytics.
MaxEngineActs == 2

\* Tuples <<sport, start, distance, moving time>>: each running sport type and
\* a ride on Sunday 2024-12-01; on Monday 2024-12-02 a run and a ride without
\* distance, a walk and a run of 1700 m.
EnginePool ==
    ( {"Run", "VirtualRun", "TrailRun", "Ride"} \X {T(2024, 12, 1, 8, 0)} \X {500000} \X {1800} )
    \cup { <<"Run", T(2024, 12, 2, 8, 0), 0, 600>>,
           <<"Ride", T(2024, 12, 2, 8, 0), 0, 600>>,
           <<"Walk", T(2024, 12, 2, 8, 0), 300000, 2400>>,
           <<"Run", T(2024, 12, 2, 8, 0), 170000, 400>> }

EngineLists ==
    UNION { { [i \in 1..n |-> Activity(i, f[i][1], f[i][2], "", f[i][3], f[i][4], 20)] :
                f \in [1..n -> EnginePool] } : n \in 0..MaxEngineActs }

InitEngine ==
    /\ activities \in EngineLists
    /\ opts = <<>>
    /\ now = TrendNow
    /\ dateWindow = <<>>
    /\ normalized = <<>>
    /\ stats = <<>>
    /\ prs = <<>>
    /\ histogram = <<>>
    /\ trends = <<>>
    /\ pc = "start"
    /\ ServerIdle

NextEngine ==
    \/ NormalizeActivities
    \/ RunningStatsCall
    \/ PersonalRecordsCall
    \/ DistanceHistogramCall
    \/ TrendsCall

SpecEngine == InitEngine /\ [][NextEngine]_vars

\* Length bound of the activity lists whose daily trend is long enough to be
\* smoothed.
MaxSmoothActs == 4

\* Tuples <<sport, start, distance, moving time>>: runs of different lengths
\* on four consecutive days, a second run on one of them and a run without
\* distance.
SmoothPool ==
    { <<"Run", T(2024, 11, 30, 8, 0), 100000, 600>>,
      <<"Run", T(2024, 12, 1, 8, 0), 200000, 900>>,
      <<"Run", T(2024, 12, 2, 8, 0), 300000, 1200>>,
      <<"Run", T(2024, 12, 3, 8, 0), 100000, 600>>,
      <<"Run", T(2024, 12, 2, 8, 0), 100000, 300>>,
      <<"Run", T(2024, 12, 3, 8, 0), 0, 600>> }

SmoothLists ==
    UNION { { [i \in 1..n |-> Activity(i, f[i][1], f[i][2], "", f[i][3], f[i][4], 20)] :
                f \in [1..n -> SmoothPool] } : n \in 0..MaxSmoothActs }

InitSmoothing ==
    /\ activities \in SmoothLists
    /\ opts = <<>>
    /\ now = TrendNow
    /\ dateWindow = <<>>
    /\ normalized = <<>>
    /\ stats = <<>>
    /\ prs = <<>>
    /\ histogram = <<>>
    /\ trends = <<>>
    /\ pc = "start"
    /\ ServerIdle

NextSmoothing == NormalizeActivities \/ TrendsCall

SpecSmoothing == InitSmoothing /\ [][NextSmoothing]_vars

\* The greatest moving time, in seconds, of the activities whose formatted
\* duration is examined: beyond one hour, one minute and one second.
MaxDurationSeconds == 3700

\* Every moving time up to the bound, and a few of several hours.
DurationSeconds == (0..MaxDurationSeconds) \cup {7200, 7260, 7201, 36000, 86399, 90061}

InitDuration ==
    \E n \in DurationSeconds : InitWith(<<Activity(1, "Run", Today, "", 500000, n, 20)>>)

NextDuration == NormalizeActivities

SpecDuration == InitDuration /\ [][NextDuration]_vars

-----------------------------------------------------------------------------
(* Properties of NormalizeActivities *)

\* The calendar day of a time as a day count, for comparing dates.
DayNumber(t) == DaysFromCivil(t.y, t.mo, t.d)

\* The input activity with ID i (IDs are positions) is in the output.
InOutput(i) == \E j \in 1..Len(normalized) : normalized[j].ID = i

\* The calendar date NormalizeActivities derives for the i-th input activity.
DerivedDate(i) == extractLocalDate(activities[i].StartDateLocal, activities[i].Timezone)

\* C1: after NormalizeActivities, an input activity is in the output if and
\* only if its derived calendar date d lies in the resolved window,
\* startDate <= d <= endDate, both ends included.
C1_WindowInclusive ==
    pc = "normalized" =>
        \A i \in 1..Len(activities) :
            InOutput(i) <=>
                /\ DayNumber(dateWindow[1].startDate) <= DayNumber(DerivedDate(i))
                /\ DayNumber(DerivedDate(i)) <= DayNumber(dateWindow[1].endDate)

\* C1 witness: a window of more than one day, an included activity dated
\* exactly startDate and an excluded one dated the day before startDate.
C1_Witness ==
    /\ pc = "normalized"
    /\ DayNumber(dateWindow[1].startDate) < DayNumber(dateWindow[1].endDate)
    /\ \E i, k \in 1..Len(activities) :
          /\ DayNumber(DerivedDate(i)) = DayNumber(dateWindow[1].startDate)
          /\ InOutput(i)
          /\ DayNumber(DerivedDate(k)) = DayNumber(dateWindow[1].startDate) - 1
          /\ ~InOutput(k)

\* C2: every emitted activity carries as LocalDate and LocalDateStr the
\* year/month/day of StartDateLocal in the timestamp's own offset, and two
\* activities with the same timestamp get the same date whatever their
\* Timezone labels.
C2_LocalDateIsOwnWallClockDate ==
    \A j \in 1..Len(normalized) :
        LET n == normalized[j]
        IN  /\ n.LocalDate = TimeDate(n.StartDateLocal.y, n.StartDateLocal.mo, n.StartDateLocal.d)
            /\ n.LocalDateStr = FormatDate(n.StartDateLocal)
            /\ \A k \in 1..Len(normalized) :
                  normalized[k].StartDateLocal = n.StartDateLocal
                      => normalized[k].LocalDate = n.LocalDate

-----------------------------------------------------------------------------
(* Properties of CalculateRunningStats and CalculatePersonalRecords *)

\* Positions of the running activities in the list the analytics receive.
RunningIdx == { i \in 1..Len(normalized) : isRunningActivity(normalized[i].SportType) }

RECURSIVE SumDistanceOf(_)
SumDistanceOf(S) ==
    IF S = {} THEN 0
    ELSE LET i == CHOOSE x \in S : TRUE
         IN  normalized[i].Distance + SumDistanceOf(S \ {i})

RECURSIVE SumMovingTimeOf(_)
SumMovingTimeOf(S) ==
    IF S = {} THEN 0
    ELSE LET i == CHOOSE x \in S : TRUE
         IN  normalized[i].MovingTime + SumMovingTimeOf(S \ {i})

\* C3: the average pace CalculateRunningStats reports is the formatted
\* (sum of moving times) / (sum of distances) of the running activities,
\* scaled to seconds per mile and per kilometre.
C3_WeightedAveragePace ==
    stats # <<>> =>
        LET dist == SumDistanceOf(RunningIdx)
            time == SumMovingTimeOf(RunningIdx)
        IN  dist > 0 =>
              /\ stats[1].AveragePace = formatPace(time * 160934, dist)
              /\ stats[1].AveragePaceMinPerKm = formatPace(time * 100000, dist)

\* C3 witness: 5000 m in 1800 s and 10000 m in 3000 s give 4800/15000 s/m,
\* 8:35 per mile and 5:20 per kilometre, which the mean of the two paces
\* (8:51 per mile) is not.
C3_Witness ==
    /\ stats # <<>>
    /\ Len(normalized) = 2
    /\ RunningIdx = {1, 2}
    /\ normalized[1].Distance = 500000 /\ normalized[1].MovingTime = 1800
    /\ normalized[2].Distance = 1000000 /\ normalized[2].MovingTime = 3000
    /\ stats[1].AveragePace = "8:35"
    /\ stats[1].AveragePaceMinPerKm = "5:20"
    /\ CalculateRunningStatsMeanOfPaces(normalized).AveragePace = "8:51"

\* Running activities whose distance lies in the closed mile band
\* [1409.34 m, 1809.34 m] and in the closed 10K band [9500 m, 10500 m].
MileCandidates ==
    { i \in RunningIdx : normalized[i].Distance >= 140934 /\ normalized[i].Distance <= 180934 }
TenKCandidates ==
    { i \in RunningIdx : normalized[i].Distance >= 950000 /\ normalized[i].Distance <= 1050000 }

\* rec is absent when S is empty, and otherwise a record of an activity of S
\* whose moving time no activity of S undercuts.
IsFastestOf(rec, S) ==
    IF S = {} THEN rec = <<>>
    ELSE /\ rec # <<>>
         /\ \E i \in S : normalized[i].ID = rec[1].ID
         /\ \A i \in S : rec[1].MovingTime <= normalized[i].MovingTime

\* C4: FastestMile is the running activity of minimum moving time among those
\* in the closed mile band, Fastest10K the one among those in the closed 10K
\* band; an activity outside a band is never its record.
C4_FastestWithinBand ==
    prs # <<>> =>
        /\ IsFastestOf(prs[1].FastestMile, MileCandidates)
        /\ IsFastestOf(prs[1].Fastest10K, TenKCandidates)

\* C4 witness: a 1700 m run in 400 s is the fastest mile although a 1900 m run
\* took only 300 s.
C4_Witness ==
    /\ prs # <<>>
    /\ prs[1].FastestMile # <<>>
    /\ prs[1].FastestMile[1].Distance = 170000
    /\ prs[1].FastestMile[1].MovingTime = 400
    /\ \E i \in RunningIdx :
          normalized[i].Distance = 190000 /\ normalized[i].MovingTime = 300

\* The least position of S (a nonempty set of positions).
FirstOf(S) == CHOOSE i \in S : \A k \in S : i <= k

LongestIdx ==
    { i \in RunningIdx : \A k \in RunningIdx : normalized[k].Distance <= normalized[i].Distance }
MostElevationIdx ==
    { i \in RunningIdx :
        \A k \in RunningIdx : normalized[k].TotalElevationGain <= normalized[i].TotalElevationGain }
FastestIdx(S) ==
    { i \in S : \A k \in S : normalized[i].MovingTime <= normalized[k].MovingTime }

\* rec is the record of the first activity, in input order, of the nonempty S.
IsFirstOf(rec, S) ==
    S # {} => rec # <<>> /\ rec[1].ID = normalized[FirstOf(S)].ID

\* C5: every record is the first activity in input order that attains the
\* category's best value; a later activity with an equal value does not
\* replace it.
C5_TiesKeepIncumbent ==
    prs # <<>> =>
        /\ IsFirstOf(prs[1].LongestRun, LongestIdx)
        /\ IsFirstOf(prs[1].MostElevation, MostElevationIdx)
        /\ IsFirstOf(prs[1].FastestMile, FastestIdx(MileCandidates))
        /\ IsFirstOf(prs[1].Fastest10K, FastestIdx(TenKCandidates))

\* C5 witness: two runs tie on distance, elevation gain and moving time inside
\* the mile band, and the first holds all three records.
C5_Witness ==
    /\ prs # <<>>
    /\ RunningIdx = {1, 2}
    /\ normalized[1].Distance = normalized[2].Distance
    /\ normalized[1].MovingTime = normalized[2].MovingTime
    /\ normalized[1].TotalElevationGain = normalized[2].TotalElevationGain
    /\ MileCandidates = {1, 2}
    /\ prs[1].LongestRun[1].ID = normalized[1].ID
    /\ prs[1].MostElevation[1].ID = normalized[1].ID
    /\ prs[1].FastestMile[1].ID = normalized[1].ID

-----------------------------------------------------------------------------
(* Properties of GenerateDistanceHistogram *)

\* The bins of the histogram computed last and the bin width of its mode.
Bins == histogram[1].Bins
BinWidth == IF histogram[1].useMiles THEN 160934 ELSE 100000

RECURSIVE SumCount(_, _)
SumCount(bins, k) == IF k > Len(bins) THEN 0 ELSE bins[k].Count + SumCount(bins, k + 1)

RECURSIVE SumBinDistance(_, _)
SumBinDistance(bins, k) ==
    IF k > Len(bins) THEN 0 ELSE bins[k].Distance + SumBinDistance(bins, k + 1)

\* The running activities with lo <= distance, and with lo <= distance < hi.
RunsFrom(lo) == { i \in RunningIdx : lo <= normalized[i].Distance }
RunsWithin(lo, hi) == { i \in RunsFrom(lo) : normalized[i].Distance < hi }

\* C7: the histogram has at most 50 bins, the bin counts sum to the number of
\* running activities and the bin distances to their total distance, and when
\* a run lies beyond the upper edge of the last bin, the last bin counts every
\* run from its lower edge on.
C7_HistogramKeepsEveryRun ==
    histogram # <<>> =>
        /\ Len(Bins) <= 50
        /\ SumCount(Bins, 1) = Cardinality(RunningIdx)
        /\ SumBinDistance(Bins, 1) = SumDistanceOf(RunningIdx)
        /\ RunsFrom(Len(Bins) * BinWidth) # {} =>
              /\ Len(Bins) > 0
              /\ Bins[Len(Bins)].Count = Cardinality(RunsFrom((Len(Bins) - 1) * BinWidth))

\* C7 witness: mile bins, a run of 100 km beyond the 50th bin's upper edge is
\* counted in the 50th bin while another run sits in a lower bin.
C7_Witness ==
    /\ histogram # <<>>
    /\ histogram[1].useMiles
    /\ Len(Bins) = 50
    /\ RunsFrom(50 * 160934) # {}
    /\ Bins[50].Count = Cardinality(RunsFrom(50 * 160934))
    /\ \E k \in 1..49 : Bins[k].Count > 0

\* What bin k (counted from 1) holds when it covers exactly
\* [(k-1)*BinWidth, k*BinWidth).
CoversOwnInterval(k) ==
    Bins[k].Count = Cardinality(RunsWithin((k - 1) * BinWidth, k * BinWidth))

\* The labels of the created bin of position k.
HasOwnLabels(k) ==
    /\ Bins[k].Range = formatRangeMiles((k - 1) * BinWidth, k * BinWidth)
    /\ Bins[k].RangeKm = formatRangeKm((k - 1) * BinWidth, k * BinWidth)

\* C8 as stated: the returned bins are the created bins, each at its position,
\* up to the last non-empty one, and bin k always covers exactly
\* [k*binWidth, (k+1)*binWidth).
C8_EveryBinCoversItsInterval ==
    histogram # <<>> =>
        /\ RunningIdx # {} => Len(Bins) > 0 /\ Bins[Len(Bins)].Count > 0
        /\ \A k \in 1..Len(Bins) : HasOwnLabels(k) /\ CoversOwnInterval(k)

\* C8 amended: as above, except that the 50th bin, when the cap makes it the
\* last created bin, counts every run from its lower edge on.
C8_BinsCoverIntervalsUpToOverflow ==
    histogram # <<>> =>
        /\ RunningIdx # {} => Len(Bins) > 0 /\ Bins[Len(Bins)].Count > 0
        /\ RunningIdx = {} => Bins = <<>>
        /\ \A k \in 1..Len(Bins) :
              /\ HasOwnLabels(k)
              /\ IF k = 50 THEN Bins[k].Count = Cardinality(RunsFrom(49 * BinWidth))
                 ELSE CoversOwnInterval(k)

\* C8 witness: an empty bin is kept below the last returned bin, the last
\* returned bin is not empty, and the empty bin created above it is cut.
C8_Witness ==
    /\ histogram # <<>>
    /\ Len(Bins) >= 3
    /\ Len(Bins) < 50
    /\ Bins[Len(Bins)].Count > 0
    /\ \E k \in 1..(Len(Bins) - 1) : Bins[k].Count = 0
    /\ \E i \in RunningIdx :
          /\ \A k \in RunningIdx : normalized[k].Distance <= normalized[i].Distance
          /\ (normalized[i].Distance + BinWidth - 1) \div BinWidth + 1 > Len(Bins)

-----------------------------------------------------------------------------
(* Properties of CalculateTrends *)

\* The points of the trend computed last and its mode.
Points == trends[1].Points
Period == trends[1].Period

\* Positions of the activities the trend is computed over.
Considered ==
    { i \in 1..Len(normalized) :
        trends[1].runningOnly => isRunningActivity(normalized[i].SportType) }

\* The summed distance of the considered activities dated dateStr: the
\* unsmoothed distance of the daily point of that date.
DailyDistance(dateStr) ==
    SumDistanceOf({ i \in Considered : normalized[i].LocalDateStr = dateStr })

\* The positions of the points next to point i, itself included.
Neighbours(i) == { j \in 1..Len(Points) : j >= i - 1 /\ j <= i + 1 }

RECURSIVE SumDailyDistance(_)
SumDailyDistance(S) ==
    IF S = {} THEN 0
    ELSE LET j == CHOOSE x \in S : TRUE
         IN  DailyDistance(Points[j].Date) + SumDailyDistance(S \ {j})

\* C6: in daily mode, whenever there is more than one point, the distance of
\* point i is the sum of the unsmoothed distances of the points in [i-1, i+1]
\* divided by the number of those that are nonzero.
C6_DailySeriesIsSmoothed ==
    (trends # <<>> /\ Period = "daily" /\ Len(Points) > 1) =>
        \A i \in 1..Len(Points) :
            LET nonzero == { j \in Neighbours(i) : DailyDistance(Points[j].Date) > 0 }
            IN  nonzero # {} =>
                  Points[i].Distance = Rat(SumDailyDistance(Neighbours(i)), Cardinality(nonzero))

\* The date string key is the group key of calendar date d in the mode.
IsKeyOf(key, d, mode) ==
    CASE mode = "weekly" ->
           /\ ParseOk(key)
           /\ Weekday(ParseDate(key)) = 1
           /\ DayNumber(ParseDate(key)) <= DayNumber(d)
           /\ DayNumber(d) <= DayNumber(ParseDate(key)) + 6
      [] mode = "monthly" ->
           /\ ParseOk(key)
           /\ ParseDate(key).y = d.y /\ ParseDate(key).mo = d.mo /\ ParseDate(key).d = 1
      [] OTHER -> key = FormatDate(d)

\* The considered activities that belong under point p.
MembersOf(p) == { i \in Considered : IsKeyOf(Points[p].Date, normalized[i].LocalDate, Period) }

\* C9: a point's key is the date itself (daily), the Monday on or before it
\* (weekly) or the first of its month (monthly); every activity is counted in
\* exactly one point, the one of its key, so two activities share a point if
\* and only if their keys are equal.
C9_GroupKeys ==
    trends # <<>> =>
        /\ \A i \in Considered : Cardinality({ p \in 1..Len(Points) : i \in MembersOf(p) }) = 1
        /\ \A p \in 1..Len(Points) :
              Points[p].Count > 0 /\ Points[p].Count = Cardinality(MembersOf(p))

\* C9 witness: in weekly mode an activity of Sunday 2024-12-01 is counted under
\* Monday 2024-11-25 and one of Monday 2024-12-02 under 2024-12-02.
C9_Witness ==
    /\ trends # <<>>
    /\ Period = "weekly"
    /\ \E p, q \in 1..Len(Points) :
          /\ Points[p].Date = <<50, 48, 50, 52, 45, 49, 49, 45, 50, 53>>
          /\ \E i \in MembersOf(p) :
                normalized[i].LocalDateStr = <<50, 48, 50, 52, 45, 49, 50, 45, 48, 49>>
          /\ Points[q].Date = <<50, 48, 50, 52, 45, 49, 50, 45, 48, 50>>
          /\ \E i \in MembersOf(q) :
                normalized[i].LocalDateStr = <<50, 48, 50, 52, 45, 49, 50, 45, 48, 50>>

\* C10: the points are in strictly ascending order of Date, so no key occurs
\* twice, whatever the order of the input and of the map iteration.
C10_PointsStrictlyAscending ==
    trends # <<>> =>
        \A p \in 1..(Len(Points) - 1) : StrLess(Points[p].Date, Points[p + 1].Date)

\* C10 witness: three activities given in descending date order yield three
\* points.
C10_Witness ==
    /\ trends # <<>>
    /\ Len(normalized) = 3
    /\ Len(Points) = 3
    /\ DayNumber(normalized[1].LocalDate) > DayNumber(normalized[2].LocalDate)
    /\ DayNumber(normalized[2].LocalDate) > DayNumber(normalized[3].LocalDate)

-----------------------------------------------------------------------------
(* Properties across the five operations *)

\* The closed set of running sport types.
RunningSports == {"Run", "VirtualRun", "TrailRun"}

\* acts without the activities of any other sport type.
RunsOnly(acts) == SelectSeq(acts, LAMBDA a : a.SportType \in RunningSports)

\* C11: the running statistics, the personal records and the histogram are
\* what they are for the input without its activities of other sport types
\* (Run, VirtualRun and TrailRun being the only running ones), and with
\* runningOnly the trend's counts sum to the number of running activities and
\* every point is the bucket of some running activity.
C11_OnlyRunningSportsContribute ==
    /\ stats # <<>> =>
          /\ stats[1] = CalculateRunningStats(RunsOnly(normalized))
          /\ stats[1].TotalRuns = Len(RunsOnly(normalized))
    /\ prs # <<>> => prs[1] = CalculatePersonalRecords(RunsOnly(normalized))
    /\ histogram # <<>> =>
          /\ Bins = GenerateDistanceHistogram(RunsOnly(normalized), histogram[1].useMiles).Bins
          /\ SumCount(Bins, 1) = Len(RunsOnly(normalized))
    /\ (trends # <<>> /\ trends[1].runningOnly) =>
          /\ SumCount(Points, 1) = Len(RunsOnly(normalized))
          /\ \A p \in 1..Len(Points) :
                \E i \in 1..Len(normalized) :
                    /\ normalized[i].SportType \in RunningSports
                    /\ IsKeyOf(Points[p].Date, normalized[i].LocalDate, Period)

\* C11 witness: a running-only trend over a VirtualRun and, on another day, an
\* activity of another sport type has the one point of the VirtualRun.
C11_Witness ==
    /\ trends # <<>>
    /\ trends[1].runningOnly
    /\ Period = "daily"
    /\ Len(normalized) = 2
    /\ normalized[1].SportType = "VirtualRun"
    /\ normalized[2].SportType \notin RunningSports
    /\ normalized[2].LocalDateStr # normalized[1].LocalDateStr
    /\ Len(Points) = 1
    /\ Points[1].Date = normalized[1].LocalDateStr
    /\ Points[1].Count = 1

-----------------------------------------------------------------------------
(* Further properties of NormalizeActivities *)

\* Midnight UTC of the calendar day with day count n.
DateOfDay(n) == LET c == CivilFromDays(n) IN T(c[1], c[2], c[3], 0, 0)

\* The window claimed for options o at time t: the explicit pair of dates when
\* both are set, and otherwise the last d days up to today, d being DaysBack
\* when it is positive and 7 when it is not or when there are no options.
ClaimedWindow(o, t) ==
    IF o # <<>> /\ ~IsZero(o[1].StartDate) /\ ~IsZero(o[1].EndDate)
      THEN [startDate |-> DateOfDay(DayNumber(o[1].StartDate)),
            endDate   |-> DateOfDay(DayNumber(o[1].EndDate))]
      ELSE LET d == IF o # <<>> /\ o[1].DaysBack > 0 THEN o[1].DaysBack ELSE 7
           IN  [startDate |-> DateOfDay(DayNumber(t) - d),
                endDate   |-> DateOfDay(DayNumber(t))]

\* C12: every call of NormalizeActivities filters by the window claimed for
\* the options and the time it is called with: the explicit [StartDate,
\* EndDate] when both are set, whatever DaysBack is, and otherwise
\* [today - d, today] with d = DaysBack if DaysBack > 0 and d = 7 if DaysBack
\* is 0 or negative or the options are nil.
C12_WindowResolution ==
    [][ (pc = "start" /\ pc' = "normalized")
            => dateWindow' = <<ClaimedWindow(opts, now)>> ]_vars

\* C12 witness: a call whose options had a DaysBack of 0 or less and only one
\* of the two dates set has filtered by the seven days up to today.
C12_Witness ==
    /\ pc = "normalized"
    /\ opts # <<>>
    /\ opts[1].DaysBack = 7
    /\ IsZero(opts[1].StartDate) /\ ~IsZero(opts[1].EndDate)
    /\ DayNumber(dateWindow[1].endDate) = DayNumber(now)
    /\ DayNumber(dateWindow[1].startDate) = DayNumber(now) - 7
    /\ normalized # <<>>

-----------------------------------------------------------------------------
(* Empty input and zero distance *)

\* C13: of an empty activity collection NormalizeActivities returns no
\* activity, CalculateRunningStats zero counts and totals with empty paces,
\* CalculatePersonalRecords four absent records, GenerateDistanceHistogram no
\* bin in either unit and CalculateTrends no point in any period with either
\* runningOnly value.
C13_EmptyInputEmptyShape ==
    /\ (activities = <<>> /\ pc # "start") => normalized = <<>>
    /\ (normalized = <<>> /\ stats # <<>>) =>
          stats[1] = [ TotalRuns |-> 0, RunsOver10K |-> 0, TotalDistance |-> 0,
                       TotalDistanceMiles |-> <<0, 1>>,
                       AveragePace |-> "", AveragePaceMinPerKm |-> "" ]
    /\ (normalized = <<>> /\ prs # <<>>) =>
          prs[1] = [ FastestMile |-> <<>>, Fastest10K |-> <<>>,
                     LongestRun |-> <<>>, MostElevation |-> <<>> ]
    /\ (normalized = <<>> /\ histogram # <<>>) => histogram[1].Bins = <<>>
    /\ (normalized = <<>> /\ trends # <<>>) => trends[1].Points = <<>>

\* C13 witness: CalculatePersonalRecords has returned for the empty output of
\* NormalizeActivities on an empty collection.
C13_Witness ==
    /\ activities = <<>>
    /\ pc = "done"
    /\ normalized = <<>>
    /\ prs # <<>>

\* The pace fields of a record or point are both empty.
NoPace(r) == r.Pace = "" /\ r.PaceMinPerKm = ""

\* C14: with a summed running distance of 0 CalculateRunningStats reports no
\* average pace, a trend point whose activities sum to a distance of 0 has no
\* pace, and a personal record of an activity of distance 0 has no pace.
C14_NoPaceFromZeroDistance ==
    /\ (stats # <<>> /\ SumDistanceOf(RunningIdx) = 0) =>
          stats[1].AveragePace = "" /\ stats[1].AveragePaceMinPerKm = ""
    /\ trends # <<>> =>
          \A p \in 1..Len(Points) : SumDistanceOf(MembersOf(p)) = 0 => NoPace(Points[p])
    /\ prs # <<>> =>
          \A rec \in { prs[1].FastestMile, prs[1].Fastest10K,
                       prs[1].LongestRun, prs[1].MostElevation } :
              (rec # <<>> /\ rec[1].Distance = 0) => NoPace(rec[1])

\* C14 witness: a trend with one point of activities that have moving time but
\* no distance, without pace, and one point with a pace.
C14_Witness ==
    /\ trends # <<>>
    /\ \E p, q \in 1..Len(Points) :
          /\ Points[p].Count > 0
          /\ SumDistanceOf(MembersOf(p)) = 0
          /\ SumMovingTimeOf(MembersOf(p)) > 0
          /\ NoPace(Points[p])
          /\ Points[q].Pace # ""

-----------------------------------------------------------------------------
(* Missing timestamps, repeated calls, order *)

\* The activities of a list that have a start timestamp.
WithTimestamp(acts) == SelectSeq(acts, LAMBDA a : ~IsZero(a.StartDateLocal))

\* C15: whatever the window, no activity whose StartDateLocal is the zero time
\* is in the output of NormalizeActivities, and the output is what the call
\* returns for the input without those activities.
C15_MissingTimestampNeverEmitted ==
    pc # "start" =>
        /\ \A j \in 1..Len(normalized) : ~IsZero(normalized[j].StartDateLocal)
        /\ WithTimestamp(normalized)
              = NormalizeLoop(WithTimestamp(activities), dateWindow[1], 1, <<>>)

\* C16: a second call of NormalizeActivities on the same activities, with the
\* options value the first call was given and on the same day, resolves the
\* same window and returns the same activities in the same order with the same
\* normalized fields.
C16_SecondCallSameOutput ==
    [][ (pc = "normalized" /\ pc' = "renormalized")
            => (normalized' = normalized /\ dateWindow' = dateWindow) ]_vars

\* C16 witness: a second call has returned, for options whose DaysBack the
\* first call corrected to 7, keeping one activity of two.
C16_Witness ==
    /\ pc = "renormalized"
    /\ opts # <<>>
    /\ opts[1].DaysBack = 7
    /\ ~UsesExplicitRange(opts)
    /\ Len(activities) = 2
    /\ Len(normalized) = 1

\* The input activity at position i passes the window filter.
PassesFilter(i) ==
    /\ DayNumber(dateWindow[1].startDate) <= DayNumber(DerivedDate(i))
    /\ DayNumber(DerivedDate(i)) <= DayNumber(dateWindow[1].endDate)

\* C17: the output holds exactly one record for each input activity that
\* passes the window filter and none for any other, the records follow the
\* order of the input, and each carries the raw fields of its activity.
C17_OutputIsSubsequence ==
    pc # "start" =>
        /\ Len(normalized) = Cardinality({ i \in 1..Len(activities) : PassesFilter(i) })
        /\ \A j \in 1..Len(normalized) :
              /\ normalized[j].ID \in 1..Len(activities)
              /\ PassesFilter(normalized[j].ID)
              /\ \A f \in DOMAIN activities[normalized[j].ID] :
                    normalized[j][f] = activities[normalized[j].ID][f]
        /\ \A j \in 1..(Len(normalized) - 1) : normalized[j].ID < normalized[j + 1].ID

\* C17 witness: two activities, the later-dated one first, both pass the
\* filter and the output is their two records in the order of the input.
C17_Witness ==
    /\ pc = "normalized"
    /\ Len(activities) = 2
    /\ Len(normalized) = 2
    /\ normalized[1].ID = 1
    /\ normalized[2].ID = 2
    /\ DayNumber(DerivedDate(1)) > DayNumber(DerivedDate(2))

-----------------------------------------------------------------------------
(* Further properties of CalculatePersonalRecords and CalculateTrends *)

\* C18: each personal record is present if and only if some running activity
\* qualifies for its category: one in the mile band for FastestMile, one in
\* the 10K band for Fastest10K, any running activity for LongestRun and for
\* MostElevation.
C18_RecordIffQualifyingRun ==
    prs # <<>> =>
        /\ prs[1].FastestMile # <<>> <=> MileCandidates # {}
        /\ prs[1].Fastest10K # <<>> <=> TenKCandidates # {}
        /\ prs[1].LongestRun # <<>> <=> RunningIdx # {}
        /\ prs[1].MostElevation # <<>> <=> RunningIdx # {}

\* C18 witness: the only running activity has neither distance nor climb, so
\* it holds LongestRun and MostElevation while FastestMile and Fastest10K are
\* absent, a ride of 1700 m notwithstanding.
C18_Witness ==
    /\ prs # <<>>
    /\ Cardinality(RunningIdx) = 1
    /\ Len(normalized) = 2
    /\ \E i \in RunningIdx :
          normalized[i].Distance = 0 /\ normalized[i].TotalElevationGain = 0
    /\ \E k \in 1..Len(normalized) :
          k \notin RunningIdx /\ InMileBand(normalized[k].Distance)
    /\ prs[1].FastestMile = <<>>
    /\ prs[1].Fastest10K = <<>>
    /\ prs[1].LongestRun # <<>>
    /\ prs[1].MostElevation # <<>>

\* The pace per unit centimetres of the activities at the positions S, as
\* calculatePeriodAverage formats it from their summed time and distance.
AggregatePace(S, unit) ==
    IF S # {} /\ SumDistanceOf(S) > 0 /\ SumMovingTimeOf(S) > 0
      THEN formatPace(SumMovingTimeOf(S) * unit, SumDistanceOf(S))
      ELSE ""

\* C19: every point, smoothed or not, has the key of its bucket as Date, the
\* number of the bucket's activities as Count and the paces of the bucket's
\* summed time over its summed distance; in weekly and monthly mode its
\* Distance and DistanceMiles are the bucket's summed distance as well.
C19_SmoothingChangesOnlyDistance ==
    trends # <<>> =>
        \A p \in 1..Len(Points) :
            /\ MembersOf(p) # {}
            /\ Points[p].Count = Cardinality(MembersOf(p))
            /\ Points[p].Pace = AggregatePace(MembersOf(p), 160934)
            /\ Points[p].PaceMinPerKm = AggregatePace(MembersOf(p), 100000)
            /\ Period # "daily" =>
                  /\ Points[p].Distance = Rat(SumDistanceOf(MembersOf(p)), 1)
                  /\ Points[p].DistanceMiles = Rat(SumDistanceOf(MembersOf(p)), 160934)

\* C19 witness: a daily trend of four points in which smoothing has given a
\* point that has a pace a distance other than its bucket's sum.
C19_Witness ==
    /\ trends # <<>>
    /\ Period = "daily"
    /\ Len(Points) = 4
    /\ \E p \in 1..Len(Points) :
          /\ Points[p].Distance # Rat(SumDistanceOf(MembersOf(p)), 1)
          /\ Points[p].Pace # ""
          /\ Points[p].Count = 1

-----------------------------------------------------------------------------
(* Properties of FormatDuration *)

\* A component with its unit letter, or nothing when it is zero.
DurationPart(n, unit) == IF n > 0 THEN <<Itoa(n) \o unit>> ELSE <<>>

\* The strings of parts with single spaces in between.
RECURSIVE JoinParts(_)
JoinParts(parts) ==
    IF Len(parts) = 1 THEN parts[1]
    ELSE parts[1] \o " " \o JoinParts(Tail(parts))

\* Hours, minutes and seconds in that order, those that are zero left out,
\* and "0s" when all three are.
ListedDuration(h, m, s) ==
    LET parts == DurationPart(h, "h") \o DurationPart(m, "m") \o DurationPart(s, "s")
    IN  IF parts = <<>> THEN "0s" ELSE JoinParts(parts)

\* C20: the formatted moving time of n >= 0 seconds lists components h, m, s
\* with m and s below 60 and h*3600 + m*60 + s = n, in that order with their
\* unit letters, leaving out those that are zero; it is "0s" for 0.
C20_FormatDurationComponents ==
    \A j \in 1..Len(normalized) :
        LET n == normalized[j].MovingTime
        IN  \E h \in 0..(n \div 3600), m \in 0..59 :
                LET s == n - h * 3600 - m * 60
                IN  /\ s \in 0..59
                    /\ normalized[j].MovingTimeFormatted = ListedDuration(h, m, s)

\* C20 witness: 3601 seconds are formatted without the minutes.
C20_Witness ==
    /\ pc = "normalized"
    /\ Len(normalized) = 1
    /\ normalized[1].MovingTime = 3601
    /\ normalized[1].MovingTimeFormatted = "1h 1s"

\* C30: NormalizeActivities leaves its arguments unchanged: after the call the
\* caller's options (DaysBack, StartDate, EndDate) and the input activities
\* hold the values they held before, for every input including DaysBack <= 0.
C30_ArgumentsUnchanged ==
    [][(pc = "start" /\ pc' = "normalized") =>
          (opts' = opts /\ activities' = activities)]_vars

-----------------------------------------------------------------------------
(* oauth.go: the session, LoginHandler, CallbackHandler, GetToken *)

\* The session store is a gorilla CookieStore: what a handler puts into
\* session.Values reaches the browser, and so the next request, only through
\* session.Save.  Save of a session of this size does not fail in the model.

\* How far the clock of a behaviour runs.
MaxClock == 6

\* The state values LoginHandler can draw (32 random bytes, base64).
OAuthStates == {"st1", "st2"}

\* expires_in of the tokens Strava issues, in seconds, short enough for a
\* token to run out while the model watches.
ExpiresIn == {12}

\* golang.org/x/oauth2 treats a token as expired this long before Expiry.
expiryDelta == 10

\* oauth2.Token; an access or refresh token is <<athlete, serial>>.
Token(athlete, serial, refreshSerial, expiry) ==
    [AccessToken  |-> <<athlete, serial>>,
     RefreshToken |-> <<athlete, refreshSerial>>,
     Expiry       |-> expiry]

\* The clock advances by a second.
Tick ==
    /\ clock < MaxClock
    /\ clock' = clock + 1
    /\ UNCHANGED <<sessions, cache, setLog, upstream, reqs, resp>>
    /\ UNCHANGED analyticsVars

\* GET /auth/login of browser u: a fresh state is stored in the session and
\* sent along with the redirect to Strava; 500 when no random bytes are had.
LoginHandler(u) ==
    /\ \E randomOk \in BOOLEAN, state \in OAuthStates :
          IF randomOk
            THEN /\ sessions' = [sessions EXCEPT ![u].oauth_state = <<state>>]
                 /\ resp' = <<[handler |-> "LoginHandler", user |-> u,
                               state |-> state, status |-> 307]>>
            ELSE /\ sessions' = sessions
                 /\ resp' = <<[handler |-> "LoginHandler", user |-> u,
                               state |-> "", status |-> 500]>>
    /\ UNCHANGED <<clock, cache, setLog, upstream, reqs>>
    /\ UNCHANGED analyticsVars

\* GET /auth/logout of browser u: the cookie is deleted, and with it the
\* session's state and token.
LogoutHandler(u) ==
    /\ sessions' = [sessions EXCEPT ![u] = [oauth_state |-> <<>>, token |-> <<>>]]
    /\ resp' = <<[handler |-> "LogoutHandler", user |-> u, status |-> 302]>>
    /\ UNCHANGED <<clock, cache, setLog, upstream, reqs>>
    /\ UNCHANGED analyticsVars

\* CallbackHandler on session sess with the query parameters state and code;
\* exchanged is <<>> when Config.Exchange fails, else <<the token>>.  Gives the
\* response status and the session as the browser holds it afterwards: the
\* removal of oauth_state is saved only together with the token.
CallbackOutcomeTrusting(sess, state, code, exchanged) ==
    IF state = "" THEN [status |-> 400, session |-> sess]
    ELSE IF code = "" THEN [status |-> 400, session |-> sess]
    ELSE IF exchanged = <<>> THEN [status |-> 500, session |-> sess]
    ELSE [status |-> 307,
          session |-> [oauth_state |-> <<>>, token |-> exchanged]]

CallbackOutcome(sess, state, code, exchanged) ==
    IF state = "" THEN [status |-> 400, session |-> sess]
    ELSE IF sess.oauth_state = <<>> \/ sess.oauth_state = <<"">>
      THEN [status |-> 400, session |-> sess]
    ELSE IF state # sess.oauth_state[1] THEN [status |-> 400, session |-> sess]
    ELSE IF code = "" THEN [status |-> 400, session |-> sess]
    ELSE IF exchanged = <<>> THEN [status |-> 500, session |-> sess]
    ELSE [status |-> 307,
          session |-> [oauth_state |-> <<>>, token |-> exchanged]]

\* GET /auth/callback of browser u.
CallbackHandler(u) ==
    /\ \E state \in OAuthStates \cup {""}, code \in {"", "code"},
          exchangeOk \in BOOLEAN, e \in ExpiresIn :
          LET exchanged == IF exchangeOk THEN <<Token(u, 1, 1, clock + e)>> ELSE <<>>
              out == CallbackOutcome(sessions[u], state, code, exchanged)
          IN  /\ sessions' = [sessions EXCEPT ![u] = out.session]
              /\ resp' = <<[handler |-> "CallbackHandler", user |-> u,
                            state |-> state, code |-> code,
                            exchanged |-> exchanged, status |-> out.status]>>
    /\ UNCHANGED <<clock, cache, setLog, upstream, reqs>>
    /\ UNCHANGED analyticsVars

\* oauth2.Token.Valid as ReuseTokenSource applies it at time t.
expired(token, t) == token.Expiry - expiryDelta < t

\* What Strava's token endpoint can answer a refresh of token at time t:
\* an error (<<>>) or a new access token with the refresh token kept.
Refreshed(token, t) ==
    LET athlete == token.AccessToken[1]
        serial  == token.AccessToken[2] + 1
    IN  {<<>>} \cup
        { <<Token(athlete, serial, token.RefreshToken[2], t + e)>> : e \in ExpiresIn }

\* GetToken on session sess at time t; refreshed is the answer of the token
\* endpoint, read only when the session's token has expired.  Gives the
\* returned token (<<>> with an error), the session afterwards and whether
\* the session was saved.
GetTokenForgetful(sess, t, refreshed) ==
    IF sess.token = <<>>
      THEN [token |-> <<>>, err |-> TRUE, session |-> sess, saved |-> FALSE]
    ELSE LET token    == sess.token[1]
             newToken == IF expired(token, t) THEN refreshed ELSE <<token>>
         IN  IF newToken = <<>>
               THEN [token |-> <<>>, err |-> TRUE, session |-> sess, saved |-> FALSE]
               ELSE [token |-> newToken, err |-> FALSE, session |-> sess,
                     saved |-> FALSE]

GetToken(sess, t, refreshed) ==
    IF sess.token = <<>>
      THEN [token |-> <<>>, err |-> TRUE, session |-> sess, saved |-> FALSE]
    ELSE LET token    == sess.token[1]
             newToken == IF expired(token, t) THEN refreshed ELSE <<token>>
         IN  IF newToken = <<>>
               THEN [token |-> <<>>, err |-> TRUE, session |-> sess, saved |-> FALSE]
             ELSE IF \/ newToken[1].AccessToken # token.AccessToken
                     \/ newToken[1].RefreshToken # token.RefreshToken
               THEN [token |-> newToken, err |-> FALSE,
                     session |-> [sess EXCEPT !.token = newToken], saved |-> TRUE]
               ELSE [token |-> newToken, err |-> FALSE, session |-> sess,
                     saved |-> FALSE]

\* The refresh answers GetToken can meet on session sess at time t.
RefreshAnswers(sess, t) ==
    IF sess.token # <<>> /\ expired(sess.token[1], t)
      THEN Refreshed(sess.token[1], t)
      ELSE {<<>>}

\* A handler of browser u calls GetToken.
GetTokenCall(u) ==
    /\ \E refreshed \in RefreshAnswers(sessions[u], clock) :
          LET out == GetToken(sessions[u], clock, refreshed)
          IN  /\ sessions' = [sessions EXCEPT ![u] = out.session]
              /\ resp' = <<[handler |-> "GetToken", user |-> u,
                            held |-> sessions[u].token, refreshed |-> refreshed,
                            token |-> out.token, err |-> out.err,
                            saved |-> out.saved]>>
    /\ UNCHANGED <<clock, cache, setLog, upstream, reqs>>
    /\ UNCHANGED analyticsVars

\* The analytics variables of a behaviour of the server: no engine call.
AnalyticsIdle ==
    /\ activities = <<>>
    /\ opts = <<>>
    /\ now = Today
    /\ dateWindow = <<>>
    /\ normalized = <<>>
    /\ stats = <<>>
    /\ prs = <<>>
    /\ histogram = <<>>
    /\ trends = <<>>
    /\ pc = "idle"

InitAuth == AnalyticsIdle /\ ServerIdle

NextAuth ==
    \/ Tick
    \/ \E u \in Users : LoginHandler(u)
    \/ \E u \in Users : LogoutHandler(u)
    \/ \E u \in Users : CallbackHandler(u)
    \/ \E u \in Users : GetTokenCall(u)

SpecAuth == InitAuth /\ [][NextAuth]_vars

-----------------------------------------------------------------------------
(* Properties of the session handlers *)

\* The step is a call of the named handler, resp' telling what it was given.
HandlerStep(name) ==
    /\ resp' # resp
    /\ resp' # <<>>
    /\ resp'[1].handler = name

\* C21: CallbackHandler stores a token in the session only for a request
\* whose state is non-empty and equal to the oauth_state LoginHandler stored
\* in that session and whose code is present and exchanged successfully; a
\* missing state, a state differing from the session's, or a missing code is
\* answered 400 and stores no token (the session's token is what it was, none
\* for a session that had none).
C21_TokenOnlyForVerifiedCallback ==
    [][HandlerStep("CallbackHandler") =>
          LET r      == resp'[1]
              before == sessions[r.user]
              after  == sessions'[r.user]
              bad    == \/ r.state = ""
                        \/ before.oauth_state # <<r.state>>
                        \/ r.code = ""
          IN  /\ (after.token # before.token \/ r.status = 307) =>
                    /\ ~bad
                    /\ r.exchanged # <<>>
                    /\ after.token = r.exchanged
              /\ bad => /\ r.status = 400
                        /\ after.token = before.token
              /\ \A u \in Users \ {r.user} : sessions'[u] = sessions[u]]_vars

\* C21 witness: a callback whose state matched was answered with the redirect
\* and the exchanged token is in the session, while the other browser is
\* still waiting with its own state and no token.
C21_Witness ==
    /\ resp # <<>>
    /\ resp[1].handler = "CallbackHandler"
    /\ resp[1].status = 307
    /\ resp[1].state # ""
    /\ sessions[resp[1].user].token = resp[1].exchanged
    /\ sessions[resp[1].user].oauth_state = <<>>
    /\ \E u \in Users \ {resp[1].user} :
          /\ sessions[u].oauth_state # <<>>
          /\ sessions[u].token = <<>>

-----------------------------------------------------------------------------
(* main.go: ActivityCache *)

\* The TTL of activityCache, in seconds.
CacheTTL == 5

\* The first n activities of athlete u as Strava lists them; in the server
\* part an activity is <<athlete, index>>.
ActivitiesOf(u, n) == [i \in 1..n |-> <<u, i>>]

\* ActivityCache.Get at time t: found is the second result.
CacheGetStale(entries, key, t) ==
    IF entries[key] = <<>>
      THEN [Activities |-> <<>>, found |-> FALSE]
      ELSE [Activities |-> entries[key][1].Activities, found |-> TRUE]

CacheGet(entries, key, t) ==
    IF entries[key] = <<>>
      THEN [Activities |-> <<>>, found |-> FALSE]
    ELSE IF t - entries[key][1].FetchedAt > CacheTTL
      THEN [Activities |-> <<>>, found |-> FALSE]
      ELSE [Activities |-> entries[key][1].Activities, found |-> TRUE]

\* ActivityCache.Set at time t.
CacheSet(entries, key, acts, t) ==
    [entries EXCEPT ![key] = <<[Activities |-> acts, FetchedAt |-> t]>>]

\* ActivityCache.Clear at time t.
CacheClear(entries, t) ==
    [k \in DOMAIN entries |->
        IF entries[k] # <<>> /\ t - entries[k][1].FetchedAt > CacheTTL
          THEN <<>>
          ELSE entries[k]]

\* The lists a caller stores.
CachedLists == {ActivitiesOf("alice", 1), ActivitiesOf("bob", 2)}

GetCall(key) ==
    /\ LET got == CacheGet(cache, key, clock)
       IN  resp' = <<[handler |-> "Get", key |-> key, at |-> clock,
                      Activities |-> got.Activities, found |-> got.found]>>
    /\ UNCHANGED <<clock, sessions, cache, setLog, upstream, reqs>>
    /\ UNCHANGED analyticsVars

SetCall(key) ==
    /\ \E acts \in CachedLists :
          /\ cache' = CacheSet(cache, key, acts, clock)
          /\ setLog' = CacheSet(setLog, key, acts, clock)
    /\ resp' = <<[handler |-> "Set", key |-> key, at |-> clock]>>
    /\ UNCHANGED <<clock, sessions, upstream, reqs>>
    /\ UNCHANGED analyticsVars

ClearCall ==
    /\ cache' = CacheClear(cache, clock)
    /\ resp' = <<[handler |-> "Clear", at |-> clock]>>
    /\ UNCHANGED <<clock, sessions, setLog, upstream, reqs>>
    /\ UNCHANGED analyticsVars

InitCache == AnalyticsIdle /\ ServerIdle

NextCache ==
    \/ Tick
    \/ \E key \in CacheKeys : GetCall(key)
    \/ \E key \in CacheKeys : SetCall(key)
    \/ ClearCall

SpecCache == InitCache /\ [][NextCache]_vars

\* C27: Get(key) reports a hit only when a Set for that key happened no
\* longer than the TTL ago, and then returns the activities of the latest Set
\* for that key; and the result of a Get is the result it would have had no
\* Clear ever been called (setLog is the cache that was never cleared).
C27_GetWithinTTLOfLatestSet ==
    \A key \in CacheKeys :
        LET got == CacheGet(cache, key, clock)
        IN  /\ got.found =>
                  /\ setLog[key] # <<>>
                  /\ clock - setLog[key][1].FetchedAt <= CacheTTL
                  /\ got.Activities = setLog[key][1].Activities
            /\ got = CacheGet(setLog, key, clock)
            /\ (resp # <<>> /\ resp[1].handler = "Get" /\ resp[1].key = key
                  /\ resp[1].at = clock /\ resp[1].found) =>
                  /\ got.found
                  /\ resp[1].Activities = got.Activities

\* C27 witness: a Get hits an entry exactly TTL old after a Clear has removed
\* the older entry of the other key.
C27_Witness ==
    /\ resp # <<>>
    /\ resp[1].handler = "Get"
    /\ resp[1].found
    /\ resp[1].at = clock
    /\ clock - setLog[resp[1].key][1].FetchedAt = CacheTTL
    /\ \E other \in CacheKeys \ {resp[1].key} :
          /\ setLog[other] # <<>>
          /\ cache[other] = <<>>

-----------------------------------------------------------------------------
(* strava.go: FetchActivities, FetchAllActivities; main.go: the handler of *)
(* /api/activities with getOrFetchActivities                               *)

\* per_page of the pagination.
perPage == 200

\* fetchOpts of a request by its cache key: nil without a usable date range,
\* else only After is set (the day before start_date).
FetchOptsOf(key) ==
    IF key = "default"
      THEN <<>>
      ELSE <<[Before |-> <<>>, After |-> <<"2024-11-24">>]>>

\* A request that has just arrived from browser u with the date range of key.
Arrived(u, key) ==
    [pc         |-> "token",     \* "token", "lookup", "paging", "done", "panicked"
     user       |-> u,
     key        |-> key,
     fetchOpts  |-> FetchOptsOf(key),
     token      |-> <<>>,        \* the token GetToken returned
     attempt    |-> 1,           \* 1, or 2 on the retry after a 401
     tokenCalls |-> 0,           \* calls of GetToken
     fetches    |-> 0,           \* calls of FetchAllActivities
     fetchedAt  |-> <<>>,        \* <<clock>> at the call of FetchAllActivities
     page       |-> 0,
     requested  |-> <<>>,        \* [Page, PerPage, Before, After] of each page request
     returned   |-> <<>>,        \* number of activities each page request gave, -1: error
     all        |-> <<>>,        \* allActivities
     upstreamErr |-> <<>>,       \* <<Strava's answer to the first failed page request>>
     source     |-> "",          \* "cache" or "upstream" once activities are had
     status     |-> 0,           \* status of the response, 0 before it
     retry_after |-> -1,         \* retry_after of the response body, -1 without
     body       |-> <<>>]        \* the activities handed on to NormalizeActivities

\* The statuses Strava answers a page request with.
UpstreamStatuses == {200, 401, 404, 429, 500}

\* Retry-After of a 429 answer: absent, or seconds.
RetryAfterHeaders == {<<>>, <<30>>}

\* Strava's answers to a page request.  A request that gets no answer at
\* all (a transport error) is left out: it ends like an answered error.
UpstreamAnswers ==
    { [StatusCode |-> s, RetryAfter |-> h] :
         s \in UpstreamStatuses \ {429}, h \in {<<>>} }
    \cup { [StatusCode |-> 429, RetryAfter |-> h] : h \in RetryAfterHeaders }

\* The page of per_page activities Strava lists for an account of total ones.
PageOf(athlete, total, page) ==
    LET first == (page - 1) * perPage + 1
        last  == Min(page * perPage, total)
    IN  IF first > last THEN <<>>
        ELSE [i \in 1..(last - first + 1) |-> <<athlete, first + i - 1>>]

\* The *APIError FetchActivities returns for a non-200 answer.
APIError(answer) ==
    [StatusCode |-> answer.StatusCode,
     RetryAfter |-> IF answer.StatusCode = 429
                      THEN IF answer.RetryAfter # <<>> /\ answer.RetryAfter[1] # 0
                             THEN answer.RetryAfter[1]
                             ELSE 60
                      ELSE 0,
     wrapped    |-> FALSE]

IsRateLimit(e) == e.StatusCode = 429
IsUnauthorized(e) == e.StatusCode = 401
IsServerError(e) == e.StatusCode >= 500 /\ e.StatusCode < 600

\* fmt.Errorf("failed to fetch activities page %d: %w", page, err): the
\* error FetchAllActivities returns holds the *APIError inside.
Wrap(e) == [e EXCEPT !.wrapped = TRUE]

\* err.(*api.APIError): <<the APIError>> when err is one itself, <<>> when
\* it is another error, also one that wraps an APIError.
AsAPIError(err) == IF err.wrapped THEN <<>> ELSE <<err>>

\* The loop of FetchAllActivities ends after a page of this many activities.
ReachedEndOnlyEmpty(n) == n = 0

ReachedEnd(n) == n = 0 \/ n < perPage

\* The response being written ends the request.
Respond(q, status, retryAfter, body) ==
    [q EXCEPT !.pc = "done", !.status = status, !.retry_after = retryAfter,
              !.body = body]

\* The handler after getOrFetchActivities returned err.
AfterFetchError(q, err) ==
    LET apiErr == AsAPIError(err)
    IN  IF apiErr = <<>> THEN Respond(q, 500, -1, <<>>)
        ELSE IF q.attempt = 1
          THEN IF IsRateLimit(apiErr[1])
                 THEN Respond(q, 429, apiErr[1].RetryAfter, <<>>)
               ELSE IF IsUnauthorized(apiErr[1])
                 THEN [q EXCEPT !.pc = "token", !.attempt = 2]
               ELSE IF IsServerError(apiErr[1]) THEN Respond(q, 502, -1, <<>>)
               ELSE Respond(q, apiErr[1].StatusCode, -1, <<>>)
          ELSE IF IsUnauthorized(apiErr[1]) THEN Respond(q, 401, -1, <<>>)
               ELSE IF IsServerError(apiErr[1]) THEN Respond(q, 502, -1, <<>>)
               ELSE Respond(q, apiErr[1].StatusCode, -1, <<>>)

\* The handler calls GetToken: at the start, and again after a 401.
HandlerGetToken(r) ==
    /\ reqs[r].pc = "token"
    /\ LET q == reqs[r]
       IN  \E refreshed \in RefreshAnswers(sessions[q.user], clock) :
              LET out   == GetToken(sessions[q.user], clock, refreshed)
                  asked == [q EXCEPT !.tokenCalls = @ + 1]
              IN  /\ sessions' = [sessions EXCEPT ![q.user] = out.session]
                  /\ reqs' = [reqs EXCEPT ![r] =
                        IF out.err
                          THEN Respond(asked, 401, -1, <<>>)
                          ELSE [asked EXCEPT !.pc = "lookup", !.token = out.token]]
    /\ UNCHANGED <<clock, cache, setLog, upstream, resp>>
    /\ UNCHANGED analyticsVars

\* getOrFetchActivities up to the first page request: a hit of the cache is
\* the result; on a miss FetchAllActivities builds paginationOpts from opts,
\* which is a nil pointer dereference when opts is nil (the goroutine of the
\* request panics and no response is written).
HandlerLookup(r) ==
    /\ reqs[r].pc = "lookup"
    /\ LET q   == reqs[r]
           got == CacheGet(cache, q.key, clock)
       IN  reqs' = [reqs EXCEPT ![r] =
              IF got.found
                THEN Respond([q EXCEPT !.source = "cache"], 200, -1, got.Activities)
              ELSE IF q.fetchOpts = <<>>
                THEN [q EXCEPT !.pc = "panicked", !.fetches = @ + 1,
                               !.fetchedAt = <<clock>>]
                ELSE [q EXCEPT !.pc = "paging", !.fetches = @ + 1,
                               !.fetchedAt = <<clock>>,
                               !.page = 1, !.all = <<>>,
                               !.requested = <<>>, !.returned = <<>>]]
    /\ UNCHANGED <<clock, sessions, cache, setLog, upstream, resp>>
    /\ UNCHANGED analyticsVars

\* One turn of the loop of FetchAllActivities: the page request and what
\* follows it without waiting: the next turn, or the return to
\* getOrFetchActivities (which stores the result in the cache) and the
\* handler (which responds, or goes for the token again).
HandlerFetchPage(r) ==
    /\ reqs[r].pc = "paging"
    /\ \E answer \in UpstreamAnswers :
          LET q       == reqs[r]
              athlete == q.token[1].AccessToken[1]
              asked   == [q EXCEPT !.requested = Append(@,
                             [Page |-> q.page, PerPage |-> perPage,
                              Before |-> q.fetchOpts[1].Before,
                              After |-> q.fetchOpts[1].After])]
          IN  IF answer.StatusCode # 200
                THEN LET err    == Wrap(APIError(answer))
                         failed == [asked EXCEPT !.returned = Append(@, -1),
                                        !.all = <<>>,
                                        !.upstreamErr =
                                            IF @ = <<>> THEN <<answer>> ELSE @]
                     IN  /\ reqs' = [reqs EXCEPT ![r] = AfterFetchError(failed, err)]
                         /\ UNCHANGED <<cache, setLog>>
                ELSE LET items == PageOf(athlete, upstream[athlete], q.page)
                         got == [asked EXCEPT !.returned = Append(@, Len(items)),
                                     !.all = @ \o items]
                     IN  IF ReachedEnd(Len(items))
                           THEN /\ cache' = CacheSet(cache, q.key, got.all, clock)
                                /\ setLog' = CacheSet(setLog, q.key, got.all, clock)
                                /\ reqs' = [reqs EXCEPT ![r] =
                                      Respond([got EXCEPT !.source = "upstream"],
                                              200, -1, got.all)]
                           ELSE /\ reqs' = [reqs EXCEPT ![r] =
                                      [got EXCEPT !.page = @ + 1]]
                                /\ UNCHANGED <<cache, setLog>>
    /\ UNCHANGED <<clock, sessions, upstream, resp>>
    /\ UNCHANGED analyticsVars

\* How many full pages the largest account of the pagination runs holds.
MaxFullPages == 2

\* Sizes of an account around the page boundaries.
AccountSizes ==
    { p * perPage + k : p \in 0..MaxFullPages, k \in {0, 1, perPage - 1} }

\* A request with a date range has its token and is about to call
\* getOrFetchActivities on an empty cache; the account of its athlete has
\* any of the sizes, the other account a single activity.
InitFetch ==
    /\ AnalyticsIdle
    /\ clock = 0
    /\ sessions = [u \in Users |->
          [oauth_state |-> <<>>, token |-> <<Token(u, 1, 1, 21600)>>]]
    /\ cache = [k \in CacheKeys |-> <<>>]
    /\ setLog = [k \in CacheKeys |-> <<>>]
    /\ \E u \in Users, n \in AccountSizes, key \in CacheKeys \ {"default"} :
          /\ upstream = [v \in Users |-> IF v = u THEN n ELSE 1]
          /\ reqs = [r \in Requests |->
                    IF r = 1
                      THEN [Arrived(u, key) EXCEPT
                               !.pc = "lookup", !.tokenCalls = 1,
                               !.token = sessions[u].token]
                      ELSE Unused]
    /\ resp = <<>>

NextFetch ==
    \/ \E r \in Requests : HandlerLookup(r)
    \/ \E r \in Requests : HandlerFetchPage(r)

SpecFetch == InitFetch /\ [][NextFetch]_vars

-----------------------------------------------------------------------------
(* Properties of the pagination *)

\* C26: FetchAllActivities requests pages 1, 2, 3, ... in order with 200
\* items per page, requests no page after one that returned fewer than 200
\* activities, and returns the concatenation of the fetched pages in page
\* order; a failed page request gives an error and no activities (nothing
\* reaches the caller or the cache).
C26_PagesInOrderUntilShortPage ==
    \A r \in Requests :
        reqs[r].pc \in {"paging", "done"} /\ reqs[r].fetches > 0 =>
            LET q == reqs[r]
                n == Len(q.requested)
                athlete == q.token[1].AccessToken[1]
            IN  /\ Len(q.returned) = n
                /\ \A i \in 1..n :
                      /\ q.requested[i].Page = i
                      /\ q.requested[i].PerPage = 200
                /\ \A i \in 1..(n - 1) : q.returned[i] = 200
                /\ q.pc = "paging" => (n = 0 \/ q.returned[n] = 200)
                /\ (q.pc = "done" /\ q.source = "upstream") =>
                      /\ n > 0
                      /\ q.returned[n] \in 0..199
                      /\ Len(q.body) = (n - 1) * 200 + q.returned[n]
                      /\ \A i \in 1..Len(q.body) : q.body[i] = <<athlete, i>>
                /\ (n > 0 /\ q.returned[n] = -1) =>
                      /\ q.body = <<>>
                      /\ q.all = <<>>
                      /\ q.status # 200
                      /\ cache[q.key] = <<>>

\* C26 witness: three pages were requested, the third came short, and the
\* 401 activities were returned.
C26_Witness ==
    /\ reqs[1].pc = "done"
    /\ reqs[1].source = "upstream"
    /\ Len(reqs[1].requested) = 3
    /\ reqs[1].returned = <<200, 200, 1>>
    /\ Len(reqs[1].body) = 401

-----------------------------------------------------------------------------
(* The server handling two requests to /api/activities at the same time *)

\* alice is logged in; bob is logged in or not.  Their tokens were issued at
\* time 0, so they run out while the requests are handled.  alice's account
\* holds one activity, bob's two.  Two requests have arrived: one of alice,
\* one of either, each with or without a date range.
InitServer ==
    /\ AnalyticsIdle
    /\ clock = 0
    /\ \E e \in ExpiresIn, bobIn \in BOOLEAN :
          sessions = [u \in Users |->
             [oauth_state |-> <<>>,
              token |-> IF u = "bob" /\ ~bobIn THEN <<>> ELSE <<Token(u, 1, 1, e)>>]]
    /\ cache = [k \in CacheKeys |-> <<>>]
    /\ setLog = [k \in CacheKeys |-> <<>>]
    /\ upstream = [u \in Users |-> IF u = "alice" THEN 1 ELSE 2]
    /\ \E u \in Users, k1 \in CacheKeys, k2 \in CacheKeys :
          reqs = [r \in Requests |->
                    IF r = 1 THEN Arrived("alice", k1) ELSE Arrived(u, k2)]
    /\ resp = <<>>

NextServer ==
    \/ Tick
    \/ \E r \in Requests : HandlerGetToken(r)
    \/ \E r \in Requests : HandlerLookup(r)
    \/ \E r \in Requests : HandlerFetchPage(r)

SpecServer == InitServer /\ [][NextServer]_vars

-----------------------------------------------------------------------------
(* Properties of the handler of /api/activities *)

\* C23: of the requests with the same cache key that are handled at the same
\* time, at most one fetches from Strava within the TTL and the others are
\* served from the cache: no two requests of one key both got their
\* activities from upstream by fetches begun within the TTL of each other.
C23_OneFetchPerKeyWithinTTL ==
    \A r1 \in Requests, r2 \in Requests :
        (/\ r1 # r2
         /\ reqs[r1].key = reqs[r2].key
         /\ reqs[r1].source = "upstream"
         /\ reqs[r2].source = "upstream"
         /\ reqs[r1].fetchedAt[1] <= reqs[r2].fetchedAt[1])
        => reqs[r2].fetchedAt[1] - reqs[r1].fetchedAt[1] > CacheTTL

\* C24: when Strava answers the activity fetch of a request with a non-200
\* status, the response is 429 carrying retry_after (the Retry-After seconds
\* of the answer, 60 without the header) for a 429, 502 for a 5xx, and the
\* answer's own status for any other but 401.
C24_UpstreamErrorMapped ==
    \A r \in Requests :
        (reqs[r].pc = "done" /\ reqs[r].upstreamErr # <<>>) =>
            LET q == reqs[r]
                answer == q.upstreamErr[1]
            IN  /\ answer.StatusCode = 429 =>
                      /\ q.status = 429
                      /\ q.retry_after = IF answer.RetryAfter = <<>>
                                           THEN 60 ELSE answer.RetryAfter[1]
                /\ answer.StatusCode \in 500..599 => q.status = 502
                /\ answer.StatusCode \notin ({401, 429} \cup (500..599)) =>
                      q.status = answer.StatusCode

\* C25: a request whose activity fetch Strava answered with 401 calls
\* GetToken again and fetches once more: it is answered 401 when the token
\* cannot be had or the retry is unauthorized again, it succeeds with the
\* retried result when the retry succeeds, and no request calls
\* FetchAllActivities more than twice.
C25_UnauthorizedRetriedOnce ==
    \A r \in Requests :
        /\ reqs[r].pc # "unused" => reqs[r].fetches <= 2
        /\ (/\ reqs[r].pc = "done"
            /\ reqs[r].upstreamErr # <<>>
            /\ reqs[r].upstreamErr[1].StatusCode = 401) =>
               /\ reqs[r].tokenCalls = 2
               /\ \/ reqs[r].status = 401
                  \/ reqs[r].fetches = 2
                  \/ reqs[r].source = "cache"
               /\ reqs[r].source # "" => reqs[r].status = 200

\* C28: the activities a request receives were fetched with a token of the
\* request's own session: every activity handed to a request is one of the
\* account of the request's user.
C28_OwnActivitiesOnly ==
    \A r \in Requests :
        (reqs[r].pc = "done" /\ reqs[r].status = 200) =>
            \A i \in 1..Len(reqs[r].body) : reqs[r].body[i][1] = reqs[r].user

\* C29: a request without a date range that misses the cache completes the
\* upstream fetch: FetchAllActivities called with nil options pages through
\* the account instead of failing on the absent options.
C29_NilOptionsFetch ==
    \A r \in Requests :
        (reqs[r].pc # "unused" /\ reqs[r].fetchOpts = <<>> /\ reqs[r].fetches > 0) =>
            /\ reqs[r].pc \in {"paging", "done"}
            /\ reqs[r].pc = "done" => reqs[r].status # 0

=============================================================================
